---------------------------- MODULE Spec2Model ----------------------------
(***************************************************************************)
(* Model of the intent-to-SQL pipeline of RAG_demo:                        *)
(*   src/src/agents/sql_agent.py (sql_agent_node) and                      *)
(*   src/src/agents/sql_agent_components/*.py.                             *)
(*                                                                         *)
(* SQL text is a sequence of lexical tokens.  A token is an atom of text   *)
(* (a word, a blank, a comment marker, a quote, ...); the text of a        *)
(* sequence is the concatenation of its tokens, so two adjacent word       *)
(* tokens form one longer word.  The texts considered are those in which   *)
(* no marker the code searches for straddles two tokens (Tokenised).       *)
(***************************************************************************)
EXTENDS Integers, Sequences, FiniteSets, TLC

VARIABLES
    qv_sql,        \* QueryValidator.validate_query: the argument sql
    qv_result      \* ... and what it returned: <<>> before the call, <<dict>> after

VARIABLES
    ex,            \* QueryExecutor: per caller, the locals of its call in progress
    open_conns,    \* the store connections that are open (connection objects)
    store          \* the store and its users: [rows, columns: size and column names of
                   \*   the result set a statement yields, raises: the exceptions it
                   \*   raises, sqls: the statements callers pass, callers: who calls]

VARIABLES
    pl             \* sql_agent_node: the locals of the run, its position, what it returned,
                   \*   and the stages it called with how each returned

VARIABLES
    schema_cache,  \* SchemaValidator.schema_cache: table -> [columns, foreign_keys]
    sv_intent,     \* SchemaValidator.validate_intent: the argument intent
    sv_result      \* ... and what it returned: <<>> before the call, <<dict>> after

VARIABLES
    qg,            \* QueryGenerator.generate_query: <<>> before the call, then the
                   \*   arguments intent and schema_info and how the call ended
    rf,            \* ResultFormatter.format_results: <<>> before the call, then the
                   \*   argument execution_result and how the call ended
    ip,            \* IntentParser.parse: the position of the call, the calls made to
                   \*   the text-completion service, the clock and what parse returned
    ss             \* get_dynamic_schema_summary: the module's _cached_schema_summary,
                   \*   the state of the store, the queries made and the texts returned

qv_vars == <<qv_sql, qv_result>>
ex_vars == <<ex, open_conns, store>>
sv_vars == <<schema_cache, sv_intent, sv_result>>
pl_vars == <<pl>>
aux_vars == <<qg, rf, ip, ss>>

\* what the steps of one component leave alone: the other components
not_ex == <<qv_vars, sv_vars, pl_vars, aux_vars>>
not_qv == <<ex_vars, sv_vars, pl_vars, aux_vars>>
not_sv == <<qv_vars, ex_vars, pl_vars, aux_vars>>

vars == <<qv_sql, qv_result, ex, open_conns, store, schema_cache, sv_intent, sv_result, pl,
          qg, rf, ip, ss>>

(***************************************************************************)
(* Bounds of the model.                                                    *)
(***************************************************************************)
MaxSqlLen == 4
MaxExecSqlLen == 2      \* length of the statements given to the executor
MaxExtraRows == 2       \* the largest result set holds max_rows + MaxExtraRows rows
NumCallers == 2         \* concurrent callers of the executor
MaxTables == 2          \* length of the tables list of an intent
MaxColumns == 2         \* length of the columns list of an intent

(***************************************************************************)
(* Text helpers                                                            *)
(***************************************************************************)
\* the tokens that hold letters, in lower case and in upper case
LowerUpper ==
    {<<"select", "SELECT">>, <<"drop", "DROP">>, <<"delete", "DELETE">>,
     <<"update", "UPDATE">>, <<"insert", "INSERT">>, <<"alter", "ALTER">>,
     <<"create", "CREATE">>, <<"truncate", "TRUNCATE">>, <<"exec", "EXEC">>,
     <<"execute", "EXECUTE">>, <<"merge", "MERGE">>, <<"bulk", "BULK">>,
     <<"union", "UNION">>, <<"from", "FROM">>, <<"where", "WHERE">>, <<"on", "ON">>,
     <<"join", "JOIN">>, <<"and", "AND">>, <<"as", "AS">>, <<"limit", "LIMIT">>,
     <<"order", "ORDER">>, <<"by", "BY">>, <<"table", "TABLE">>, <<"desc", "DESC">>,
     <<"avg", "AVG">>, <<"sum", "SUM">>, <<"count", "COUNT">>, <<"max", "MAX">>,
     <<"min", "MIN">>, <<"median", "MEDIAN">>, <<"true", "TRUE">>,
     <<"x", "X">>, <<"e", "E">>, <<"b", "B">>, <<"u", "U">>, <<"t", "T">>, <<"g", "G">>,
     <<"emmi", "EMMI">>,
     <<"estates", "ESTATES">>, <<"buildings", "BUILDINGS">>, <<"units", "UNITS">>,
     <<"transactions", "TRANSACTIONS">>, <<"ghosts", "GHOSTS">>,
     <<"estate_monthly_market_info", "ESTATE_MONTHLY_MARKET_INFO">>,
     <<"estate_id", "ESTATE_ID">>, <<"estate_name_en", "ESTATE_NAME_EN">>,
     <<"building_id", "BUILDING_ID">>, <<"unit_id", "UNIT_ID">>, <<"tx_id", "TX_ID">>,
     <<"price", "PRICE">>, <<"avg_ft_price", "AVG_FT_PRICE">>,
     <<"avg_price", "AVG_PRICE">>, <<"market_price", "MARKET_PRICE">>,
     <<"colour", "COLOUR">>, <<"id", "ID">>}

\* the letter tokens that are not words
Marks == {<<"<script", "<SCRIPT">>, <<"javascript:", "JAVASCRIPT:">>}

\* tokens in mixed case: the token, its lower case, its upper case
MixedCase == {<<"True", "true", "TRUE">>, <<"Avg", "avg", "AVG">>, <<"Price", "price", "PRICE">>}

\* tokens made of word characters only ([A-Za-z0-9_] : \w of the re module)
WordTokens ==
    {p[1] : p \in LowerUpper} \cup {p[2] : p \in LowerUpper} \cup {p[1] : p \in MixedCase}
        \cup {"_", "0", "1", "5", "10"}

\* white space: what str.strip() removes and \s matches
Whitespace == {" ", "\n"}

\* str.upper() and str.lower() of the tokens that hold letters
UpperOf ==
    [t \in {p[1] : p \in LowerUpper \cup Marks \cup MixedCase} |->
        IF \E p \in MixedCase : p[1] = t
        THEN (CHOOSE p \in MixedCase : p[1] = t)[3]
        ELSE (CHOOSE p \in LowerUpper \cup Marks : p[1] = t)[2]]

LowerOf ==
    [t \in {p[2] : p \in LowerUpper \cup Marks} \cup {p[1] : p \in MixedCase} |->
        IF \E p \in MixedCase : p[1] = t
        THEN (CHOOSE p \in MixedCase : p[1] = t)[2]
        ELSE (CHOOSE p \in LowerUpper \cup Marks : p[2] = t)[1]]

\* str.upper() of one token
Upper(t) == IF t \in DOMAIN UpperOf THEN UpperOf[t] ELSE t

\* str.lower() of one token
Lower(t) == IF t \in DOMAIN LowerOf THEN LowerOf[t] ELSE t

\* the first / the last character of the token is a word character
StartsWordChar(t) == t \in WordTokens \/ t \in {"javascript:", "JAVASCRIPT:", "2.5"}
EndsWordChar(t)   == t \in WordTokens \/ t \in {"<script", "<SCRIPT", "2.5", "-1"}

UpperSeq(s) == [i \in 1..Len(s) |-> Upper(s[i])]
LowerSeq(s) == [i \in 1..Len(s) |-> Lower(s[i])]

\* str.count of a one-token needle
Count(s, t) == Cardinality({i \in 1..Len(s) : s[i] = t})

\* str.strip(): white space removed at both ends
RECURSIVE LStrip(_)
LStrip(s) == IF s # <<>> /\ Head(s) \in Whitespace THEN LStrip(Tail(s)) ELSE s

RECURSIVE RStrip(_)
RStrip(s) ==
    IF s # <<>> /\ s[Len(s)] \in Whitespace THEN RStrip(SubSeq(s, 1, Len(s) - 1)) ELSE s

Strip(s) == RStrip(LStrip(s))

\* the characters at a token boundary form no comment marker of their own:
\* "/*" "/*" reads /*/*, which holds a "*/"; "*/" "*/" reads */*/, which holds a "/*"
Tokenised(s) ==
    \A i \in 1..(Len(s) - 1) : ~(s[i] = s[i+1] /\ s[i] \in {"/*", "*/"})

\* all sequences over S of length 0..n
SeqsUpTo(S, n) == UNION {[1..k -> S] : k \in 0..n}


(***************************************************************************)
(* QueryValidator  (sql_agent_components/query_validator.py)               *)
(* An error or warning message is a pair <<fixed text, interpolated part>>.*)
(***************************************************************************)
dangerous_keywords ==
    {"DROP", "DELETE", "UPDATE", "INSERT", "ALTER", "CREATE",
     "TRUNCATE", "EXEC", "EXECUTE", "MERGE", "BULK"}

\* the order in which the keyword set is walked (a Python set has no fixed order;
\* one order is taken, the claims read only which errors there are)
KeywordOrder ==
    <<"DROP", "DELETE", "UPDATE", "INSERT", "ALTER", "CREATE",
      "TRUNCATE", "EXEC", "EXECUTE", "MERGE", "BULK">>

\* re.search(r'\b' + keyword + r'\b', text): the keyword as a whole word
WholeWordIn(s, kw) ==
    \E i \in 1..Len(s) :
        /\ s[i] = kw
        /\ (i = 1 \/ ~EndsWordChar(s[i-1]))
        /\ (i = Len(s) \/ ~StartsWordChar(s[i+1]))

RECURSIVE DangerousErrors(_, _)
DangerousErrors(sql_upper, k) ==
    IF k > Len(KeywordOrder) THEN <<>>
    ELSE (IF WholeWordIn(sql_upper, KeywordOrder[k])
          THEN << <<"Dangerous operation detected: ", KeywordOrder[k]>> >>
          ELSE <<>>) \o DangerousErrors(sql_upper, k + 1)

_check_dangerous_operationsNoUpper(sql) ==
    LET errors == DangerousErrors(sql, 1)
    IN  [safe |-> Len(errors) = 0, errors |-> errors]

_check_dangerous_operations(sql) ==
    LET sql_upper == UpperSeq(sql)
        errors == DangerousErrors(sql_upper, 1)
    IN  [safe |-> Len(errors) = 0, errors |-> errors]

\* re.sub(r'--.*$', '', sql, flags=re.MULTILINE): from -- to the end of the line.
\* Token i is removed when a -- stands at or before it with no line break between;
\* the line break itself is not matched by '.' nor consumed by '$'.
InLineComment(s, i) ==
    \E j \in 1..i : s[j] = "--" /\ \A k \in (j+1)..i : s[k] # "\n"

RemoveLineComments(s) ==
    LET kept == SelectSeq([i \in 1..Len(s) |-> i], LAMBDA i : ~InLineComment(s, i))
    IN  [n \in 1..Len(kept) |-> s[kept[n]]]

\* re.sub(r'/\*.*?\*/', '', sql, flags=re.DOTALL): from /* to the nearest */.
\* Token i is removed when a /* stands at or before it, no */ stands between the
\* two, and a */ stands at or after it (and after the /*).
InBlockComment(s, i) ==
    \E o \in 1..i :
        /\ s[o] = "/*"
        /\ \A k \in (o+1)..(i-1) : s[k] # "*/"
        /\ \E j \in i..Len(s) : j > o /\ s[j] = "*/"

RemoveBlockComments(s) ==
    LET kept == SelectSeq([i \in 1..Len(s) |-> i], LAMBDA i : ~InBlockComment(s, i))
    IN  [n \in 1..Len(kept) |-> s[kept[n]]]

_remove_comments(sql) == RemoveBlockComments(RemoveLineComments(sql))

\* text.startswith('SELECT'): the first token spells SELECT (no token of the
\* alphabets is a longer word beginning with SELECT)
StartsWithSELECT(s) == s # <<>> /\ s[1] = "SELECT"

_check_sql_syntax(sql0) ==
    LET sql == _remove_comments(sql0)
        \* the token \' holds one quote character and is one escaped quote
        single_quotes == Count(sql, "'") + Count(sql, "\\'") - Count(sql, "\\'")
        double_quotes == Count(sql, "\"") + Count(sql, "\\\"") - Count(sql, "\\\"")
        errors ==
            (IF Count(sql, "(") # Count(sql, ")")
             THEN << <<"Unbalanced parentheses", "">> >> ELSE <<>>)
         \o (IF single_quotes % 2 # 0
             THEN << <<"Unbalanced single quotes", "">> >> ELSE <<>>)
         \o (IF double_quotes % 2 # 0
             THEN << <<"Unbalanced double quotes", "">> >> ELSE <<>>)
         \o (IF ~StartsWithSELECT(Strip(UpperSeq(sql)))
             THEN << <<"Query must start with SELECT", "">> >> ELSE <<>>)
         \o (IF Count(sql, ";") > 1
             THEN << <<"Multiple semicolons detected", "">> >> ELSE <<>>)
    IN  [valid |-> Len(errors) = 0, errors |-> errors]

\* r';\s*--' and r';\s*/\*': a semicolon, white space, then the comment marker
SemicolonThen(s, marker) ==
    \E i \in 1..Len(s) : \E j \in (i+1)..Len(s) :
        /\ s[i] = ";"
        /\ s[j] = marker
        /\ \A k \in (i+1)..(j-1) : s[k] \in Whitespace

\* r'union\s+select.*--' ('.' does not match a line break)
UnionSelectComment(s) ==
    \E i \in 1..Len(s) : \E j \in (i+2)..Len(s) : \E k \in (j+1)..Len(s) :
        /\ s[i] = "union"
        /\ \A m \in (i+1)..(j-1) : s[m] \in Whitespace
        /\ s[j] = "select"
        /\ s[k] = "--"
        /\ \A m \in (j+1)..(k-1) : s[m] # "\n"

\* r'/\*.*\*/.*select' ('.' does not match a line break)
BlockCommentBeforeSelect(s) ==
    \E i \in 1..Len(s) : \E j \in (i+1)..Len(s) : \E k \in (j+1)..Len(s) :
        /\ s[i] = "/*"
        /\ s[j] = "*/"
        /\ s[k] = "select"
        /\ \A m \in (i+1)..(k-1) : s[m] # "\n"

_check_sql_injection(sql) ==
    LET sql_lower == LowerSeq(sql)
        errors ==
            (IF SemicolonThen(sql_lower, "--")
             THEN << <<"Potential SQL injection pattern detected: ", ";\\s*--">> >>
             ELSE <<>>)
         \o (IF SemicolonThen(sql_lower, "/*")
             THEN << <<"Potential SQL injection pattern detected: ", ";\\s*/\\*">> >>
             ELSE <<>>)
         \o (IF UnionSelectComment(sql_lower)
             THEN << <<"Potential SQL injection pattern detected: ", "union\\s+select.*--">> >>
             ELSE <<>>)
         \o (IF BlockCommentBeforeSelect(sql_lower)
             THEN << <<"Potential SQL injection pattern detected: ", "/\\*.*\\*/.*select">> >>
             ELSE <<>>)
         \o (IF \E i \in 1..Len(sql_lower) : sql_lower[i] \in {"<script", "javascript:"}
             THEN << <<"Script injection attempt detected", "">> >> ELSE <<>>)
    IN  [safe |-> Len(errors) = 0, errors |-> errors]

\* sql_upper.count(' ON '): occurrences that do not overlap, counted from the left.
\* Two occurrences overlap when they share a space (" ON ON "): of a run of
\* occurrences two tokens apart, the first, third, fifth ... are counted.
SpacedONAt(s, i) ==
    i >= 1 /\ i + 2 <= Len(s) /\ s[i] = " " /\ s[i+1] = "ON" /\ s[i+2] = " "

SpacedONRun(s, i) ==
    Cardinality({m \in 0..(i \div 2) : \A q \in 0..m : SpacedONAt(s, i - 2 * q)})

CountSpacedON(s) ==
    Cardinality({i \in 1..Len(s) : SpacedONRun(s, i) % 2 = 1})

_check_performance(sql) ==
    LET sql_upper == UpperSeq(sql)
        has_from  == \E i \in 1..Len(sql_upper) : sql_upper[i] = "FROM"
        has_where == \E i \in 1..Len(sql_upper) : sql_upper[i] = "WHERE"
        select_star == \E i \in 1..(Len(sql_upper) - 2) :
                          /\ sql_upper[i] = "SELECT"
                          /\ sql_upper[i+1] = " "
                          /\ sql_upper[i+2] = "*"
        join_count == Count(sql_upper, "JOIN")
        on_count == CountSpacedON(sql_upper)
    IN  [warnings |->
            (IF select_star /\ has_from
             THEN << <<"SELECT * detected - consider specifying columns", "">> >>
             ELSE <<>>)
         \o (IF has_from /\ ~has_where
             THEN << <<"Query without WHERE clause may be slow on large tables", "">> >>
             ELSE <<>>)
         \o (IF join_count > 0 /\ on_count < join_count
             THEN << <<"Potential Cartesian product - missing JOIN conditions", "">> >>
             ELSE <<>>)]

\* 'dangerous' in e.lower(): the fixed texts whose lower case holds that word
\* (no interpolated part does: they are keywords and pattern sources)
MentionsDangerous(e) == e[1] \in {"Dangerous operation detected: "}

validate_query(sql) ==
    LET dangerous_check == _check_dangerous_operations(sql)
        syntax_check == _check_sql_syntax(sql)
        injection_check == _check_sql_injection(sql)
        performance_check == _check_performance(sql)
        errors ==
            (IF ~dangerous_check.safe THEN dangerous_check.errors ELSE <<>>)
         \o (IF ~syntax_check.valid THEN syntax_check.errors ELSE <<>>)
         \o (IF ~injection_check.safe THEN injection_check.errors ELSE <<>>)
    IN  [valid |-> Len(errors) = 0,
         safe |-> \A i \in 1..Len(errors) : ~MentionsDangerous(errors[i]),
         errors |-> errors,
         warnings |-> performance_check.warnings]

(***************************************************************************)
(* validate_query called on arbitrary SQL text                             *)
(***************************************************************************)
SqlAlphabet ==
    {"SELECT", "drop", "x", " ", "\n", "--", "/*", "*/", ";", "'", "union", "<script"}

QVIdle == qv_sql = <<>> /\ qv_result = <<>>

ExOff ==
    /\ ex = <<>>
    /\ open_conns = {}
    /\ store = [rows |-> 0, columns |-> <<>>, sqls |-> {}, callers |-> {}, raises |-> {}]

SVIdle == schema_cache = <<>> /\ sv_intent = <<>> /\ sv_result = <<>>

PLOff == pl = <<>>

AuxIdle == qg = <<>> /\ rf = <<>> /\ ip = <<>> /\ ss = <<>>

QVInit ==
    /\ ExOff
    /\ AuxIdle
    /\ SVIdle
    /\ PLOff
    /\ qv_sql \in {s \in SeqsUpTo(SqlAlphabet, MaxSqlLen) : Tokenised(s)}
    /\ qv_result = <<>>

QVValidate ==
    /\ qv_result = <<>>
    /\ qv_result' = <<validate_query(qv_sql)>>
    /\ UNCHANGED <<qv_sql, not_qv>>

QVNext == QVValidate

SpecQV == QVInit /\ [][QVNext]_vars


(***************************************************************************)
(* QueryExecutor  (sql_agent_components/query_executor.py)                 *)
(* Row i of a result set is represented by its position i.                 *)
(***************************************************************************)
max_rows == 1000

Callers == 1..NumCallers

\* exception classes the store raises, as the except clauses tell them apart
ConnectExceptions == {"OperationalError", "Exception"}
ExecuteExceptions == {"OperationalError", "IntegrityError", "ProgrammingError", "Exception"}

ErrorPrefix(exc) ==
    CASE exc = "OperationalError" -> "SQL execution error: "
      [] exc = "IntegrityError"   -> "Data integrity error: "
      [] OTHER                    -> "Unexpected error during query execution: "

ErrorTypeFirstClause(exc) == "operational"

\* the except clauses of execute_query, in their order
ErrorType(exc) ==
    CASE exc = "OperationalError" -> "operational"
      [] exc = "IntegrityError"   -> "integrity"
      [] OTHER                    -> "unexpected"

ErrorResult(sql, exc) ==
    [success |-> FALSE, error |-> <<ErrorPrefix(exc), exc>>,
     error_type |-> ErrorType(exc), query |-> sql]

SafetyResult(sql) ==
    [success |-> FALSE, error |-> <<"Only SELECT queries are allowed in read mode", "">>,
     error_type |-> "safety", query |-> sql]

\* cursor.fetchmany(n) from position pos of a result set of total rows
fetchmany(pos, total, n) ==
    LET last == IF pos + n < total THEN pos + n ELSE total
    IN  [i \in 1..(last - pos) |-> pos + i]

\* cursor.fetchone() is not None
HasRowAfterFullPage(pos, total, n) == n = max_rows

HasRowAfter(pos, total, n) == pos + n < total

SuccessResult(sql, total, columns) ==
    LET rows == fetchmany(0, total, max_rows)
        has_more == HasRowAfter(0, total, Len(rows))
    IN  [success |-> TRUE, data |-> rows, columns |-> columns,
         row_count |-> Len(rows), has_more |-> has_more, query |-> sql]

\* the test of execute_read_query: sql.upper().strip().startswith('SELECT')
ReadCheckContains(sql) == \E i \in 1..Len(sql) : Upper(sql[i]) = "SELECT"

ReadCheck(sql) == StartsWithSELECT(Strip(UpperSeq(sql)))

ExIdle ==
    [pc |-> "idle", entry |-> "", sql |-> <<>>, conn |-> 0, opened |-> 0,
     total |-> 0, columns |-> <<>>, raised_at |-> "", exc |-> "", result |-> <<>>]

\* a caller enters execute_read_query or execute_query
ExCall(p) ==
    /\ ex[p].pc \in {"idle", "returned"}
    /\ \E entry \in {"execute_read_query", "execute_query"} : \E sql \in store.sqls :
          ex' = [ex EXCEPT ![p] =
                    [ExIdle EXCEPT !.pc = IF entry = "execute_read_query"
                                          THEN "read_check" ELSE "connect",
                                   !.entry = entry, !.sql = sql]]
    /\ UNCHANGED <<open_conns, store, not_ex>>

\* execute_read_query, lines 103-112
ExReadCheck(p) ==
    /\ ex[p].pc = "read_check"
    /\ IF ~ReadCheck(ex[p].sql)
       THEN ex' = [ex EXCEPT ![p].pc = "returned",
                             ![p].result = <<SafetyResult(ex[p].sql)>>]
       ELSE ex' = [ex EXCEPT ![p].pc = "connect"]
    /\ UNCHANGED <<open_conns, store, not_ex>>

\* a new connection object: one that is not among the open ones (an object that
\* was closed and dropped may lend its identity to a later one)
NewConn == CHOOSE c \in 1..(Cardinality(open_conns) + 1) : c \notin open_conns

\* execute_query, line 31: sqlite3.connect returns a new connection or raises
ExConnect(p) ==
    /\ ex[p].pc = "connect"
    /\ \/ /\ open_conns' = open_conns \cup {NewConn}
          /\ ex' = [ex EXCEPT ![p].pc = "execute", ![p].conn = NewConn,
                              ![p].opened = ex[p].opened + 1]
       \/ /\ \E exc \in ConnectExceptions \cap store.raises :
                ex' = [ex EXCEPT ![p].pc = "finally", ![p].raised_at = "connect", ![p].exc = exc,
                                 ![p].result = <<ErrorResult(ex[p].sql, exc)>>]
          /\ UNCHANGED open_conns
    /\ UNCHANGED <<store, not_ex>>

\* execute_query, lines 33-36: cursor.execute(sql) succeeds or raises; the
\* statement yields the store's result set, or no rows (cursor.description is None)
ExExecute(p) ==
    /\ ex[p].pc = "execute"
    /\ \/ ex' = [ex EXCEPT ![p].pc = "fetch", ![p].total = store.rows,
                           ![p].columns = store.columns]
       \/ ex' = [ex EXCEPT ![p].pc = "fetch", ![p].total = 0, ![p].columns = <<>>]
       \/ \E exc \in ExecuteExceptions \cap store.raises :
             ex' = [ex EXCEPT ![p].pc = "finally", ![p].raised_at = "execute", ![p].exc = exc,
                              ![p].result = <<ErrorResult(ex[p].sql, exc)>>]
    /\ UNCHANGED <<open_conns, store, not_ex>>

\* execute_query, lines 39-61: fetchmany, description, fetchone, the result
ExFetch(p) ==
    /\ ex[p].pc = "fetch"
    /\ \/ ex' = [ex EXCEPT ![p].pc = "finally",
                           ![p].result = <<SuccessResult(ex[p].sql, ex[p].total,
                                                         ex[p].columns)>>]
       \/ \E exc \in ExecuteExceptions \cap store.raises :
             ex' = [ex EXCEPT ![p].pc = "finally", ![p].raised_at = "fetch", ![p].exc = exc,
                              ![p].result = <<ErrorResult(ex[p].sql, exc)>>]
    /\ UNCHANGED <<open_conns, store, not_ex>>

\* execute_query, lines 93-95: finally, then the return
ExFinallySkipClose(p) ==
    /\ ex[p].pc = "finally"
    /\ open_conns' = IF ex[p].conn # 0 /\ ex[p].result[1].success
                     THEN open_conns \ {ex[p].conn} ELSE open_conns
    /\ ex' = [ex EXCEPT ![p].pc = "returned"]
    /\ UNCHANGED <<store, not_ex>>

ExFinally(p) ==
    /\ ex[p].pc = "finally"
    /\ open_conns' = IF ex[p].conn # 0 THEN open_conns \ {ex[p].conn} ELSE open_conns
    /\ ex' = [ex EXCEPT ![p].pc = "returned"]
    /\ UNCHANGED <<store, not_ex>>

\* the steps of a call in progress
ExStep ==
    \/ \E p \in store.callers : ExReadCheck(p)
    \/ \E p \in store.callers : ExConnect(p)
    \/ \E p \in store.callers : ExExecute(p)
    \/ \E p \in store.callers : ExFetch(p)
    \/ \E p \in store.callers : ExFinally(p)

ExNext ==
    \/ \E p \in store.callers : ExCall(p)
    \/ ExStep

ExecAlphabet == {"SELECT", "select", " ", "insert"}

RowCounts == {0, 1, max_rows - 1, max_rows, max_rows + 1, max_rows + MaxExtraRows}

ExStart ==
    /\ ex = [p \in Callers |-> ExIdle]
    /\ open_conns = {}

\* one caller after another, any statement, any size of result set
ExecInit ==
    /\ ExStart
    /\ \E n \in RowCounts : \E sql \in SeqsUpTo(ExecAlphabet, MaxExecSqlLen) :
          store = [rows |-> n, columns |-> <<"estate_id">>, sqls |-> {sql}, callers |-> {1},
                   raises |-> ExecuteExceptions]
    /\ QVIdle
    /\ AuxIdle
    /\ SVIdle
    /\ PLOff

\* several callers at once
ConcInit ==
    /\ ExStart
    /\ \E sql \in {<<"SELECT">>, <<"insert">>} :
          store = [rows |-> 1, columns |-> <<"estate_id">>, sqls |-> {sql}, callers |-> Callers,
                   raises |-> {"OperationalError", "Exception"}]
    /\ QVIdle
    /\ AuxIdle
    /\ SVIdle
    /\ PLOff

SpecExec == ExecInit /\ [][ExNext]_vars

SpecConc == ConcInit /\ [][ExNext]_vars


(***************************************************************************)
(* Python values of the fields of an intent whose type the code inspects.  *)
(* A value is [type, int, str]: its class, its integer value (0 where it    *)
(* has none) and the text str() gives.                                      *)
(***************************************************************************)
IntText(n) ==
    CASE n = -1 -> "-1"
      [] n = 0  -> "0"
      [] n = 1  -> "1"
      [] n = 5  -> "5"
      [] n = 10 -> "10"
      [] OTHER  -> "n"

PyNone == [type |-> "NoneType", int |-> 0, str |-> "None"]
PyInt(n) == [type |-> "int", int |-> n, str |-> IntText(n)]
PyStr(t) == [type |-> "str", int |-> 0, str |-> t]
PyTrue == [type |-> "bool", int |-> 1, str |-> "True"]
PyFloat(t) == [type |-> "float", int |-> 0, str |-> t]

\* isinstance(v, int): bool is a subclass of int
IsInstanceInt(v) == v.type \in {"int", "bool"}

\* bool(v)
Truthy(v) ==
    CASE v.type = "NoneType" -> FALSE
      [] v.type \in {"int", "bool"} -> v.int # 0
      [] v.type = "str" -> v.str # ""
      [] v.type = "float" -> v.str # "0.0"

\* the members of a sequence
Range(s) == {s[i] : i \in 1..Len(s)}

(***************************************************************************)
(* SchemaValidator  (sql_agent_components/schema_validator.py)             *)
(* An intent is the mapping the parser returned, with the value            *)
(* intent.get gives for each key (an absent key reads as its default).     *)
(***************************************************************************)
\* the schema of the store, as _load_schema reads it
StoreSchema ==
    [t \in {"estates", "buildings", "units", "transactions", "estate_monthly_market_info"} |->
        [columns |->
            CASE t = "estates"      -> <<"estate_id", "estate_name_en">>
              [] t = "buildings"    -> <<"building_id", "estate_id">>
              [] t = "units"        -> <<"unit_id", "building_id">>
              [] t = "transactions" -> <<"tx_id", "price", "unit_id">>
              [] t = "estate_monthly_market_info" -> <<"estate_id", "avg_ft_price">>,
         foreign_keys |-> <<>>]]

\* _load_schema: the schema of the store, or {} when the store cannot be read
LoadedSchemas == {StoreSchema, <<>>}

\* column in self.schema_cache[table]['columns'] for a table of the cache
ColumnIn(cache, table, column) ==
    table \in DOMAIN cache /\ column \in Range(cache[table].columns)

_get_relevant_schema_info(cache, intent) ==
    [t \in Range(intent.tables) \cap DOMAIN cache |-> cache[t]]

valid_aggregations ==
    {PyStr("avg"), PyStr("sum"), PyStr("count"), PyStr("max"), PyStr("min"), PyNone}

\* if aggregation and aggregation not in valid_aggregations
AggregationRejected(aggregation) ==
    Truthy(aggregation) /\ aggregation \notin valid_aggregations

LimitRejectedWhenPresent(limit) == limit.type # "NoneType"

\* if limit is not None and (not isinstance(limit, int) or limit <= 0)
LimitRejected(limit) ==
    limit.type # "NoneType" /\ (~IsInstanceInt(limit) \/ limit.int <= 0)

\* warnings count against the intent as errors do
ValidOfNoWarnings(errors, warnings) == Len(errors) = 0 /\ Len(warnings) = 0

\* 'valid': len(errors) == 0
ValidOf(errors, warnings) == Len(errors) = 0

validate_intent(cache, intent) ==
    LET tables == intent.tables
        columns == intent.columns
        missing == SelectSeq(tables, LAMBDA t : t \notin DOMAIN cache)
        table_errors ==
            IF tables = <<>> THEN << <<"No tables specified in intent", "">> >>
            ELSE [i \in 1..Len(missing) |->
                     <<"Table '{table}' does not exist in database", missing[i]>>]
        found(c) == \E i \in 1..Len(tables) : ColumnIn(cache, tables[i], c)
        all_columns == UNION {Range(cache[t].columns) : t \in DOMAIN cache}
        unknown == SelectSeq(columns, LAMBDA c : ~found(c) /\ c \notin all_columns)
        elsewhere == SelectSeq(columns, LAMBDA c : ~found(c) /\ c \in all_columns)
        column_errors ==
            [i \in 1..Len(unknown) |->
                <<"Column '{column}' does not exist in any table", unknown[i]>>]
        column_warnings ==
            [i \in 1..Len(elsewhere) |->
                <<"Column '{column}' exists but not in specified tables - may need JOIN",
                  elsewhere[i]>>]
        aggregation_errors ==
            IF AggregationRejected(intent.aggregation)
            THEN << <<"Invalid aggregation function: {aggregation}", intent.aggregation.str>> >>
            ELSE <<>>
        ungrouped == SelectSeq(intent.group_by, LAMBDA c : c \notin Range(columns))
        group_warnings ==
            [i \in 1..Len(ungrouped) |->
                <<"GROUP BY column '{column}' not in selected columns", ungrouped[i]>>]
        unordered == SelectSeq(intent.order_by, LAMBDA c : c \notin Range(columns))
        order_warnings ==
            [i \in 1..Len(unordered) |->
                <<"ORDER BY column '{column}' not in selected columns", unordered[i]>>]
        limit_errors ==
            IF LimitRejected(intent.limit)
            THEN << <<"Invalid LIMIT value: {limit}", intent.limit.str>> >>
            ELSE <<>>
        errors == table_errors \o column_errors \o aggregation_errors \o limit_errors
        warnings == column_warnings \o group_warnings \o order_warnings
    IN  [valid |-> ValidOf(errors, warnings),
         errors |-> errors,
         warnings |-> warnings,
         schema_info |-> _get_relevant_schema_info(cache, intent)]

(***************************************************************************)
(* validate_intent called on arbitrary intents                             *)
(***************************************************************************)
SVTableNames == {"estates", "ghosts"}
SVColumnNames == {"estate_id", "price", "colour"}
SVAggregations == {PyNone, PyStr("avg"), PyStr("min"), PyStr("median"), PyStr("")}
SVLimits == {PyNone, PyInt(1), PyInt(0), PyInt(-1), PyStr("5"), PyFloat("2.5"), PyTrue}

SVIntents ==
    [tables : SeqsUpTo(SVTableNames, MaxTables),
     columns : SeqsUpTo(SVColumnNames, MaxColumns),
     filters : {<<>>},
     aggregation : SVAggregations,
     group_by : {<<>>, <<"price">>, <<"estate_id">>},
     order_by : {<<>>, <<"price">>},
     limit : SVLimits]

\* a validator is constructed (the schema is loaded), then handed an intent
SVInit ==
    /\ schema_cache \in LoadedSchemas
    /\ sv_intent \in SVIntents
    /\ sv_result = <<>>
    /\ QVIdle
    /\ AuxIdle
    /\ ExOff
    /\ PLOff

SVValidate ==
    /\ sv_result = <<>>
    /\ sv_result' = <<validate_intent(schema_cache, sv_intent)>>
    /\ UNCHANGED <<schema_cache, sv_intent, not_sv>>

SVNext == SVValidate

SpecSV == SVInit /\ [][SVNext]_vars


\* a JSON object read as an intent, and a JSON value that is no object
Mapping(tables, columns, filters, aggregation, order_by, limit) ==
    [type |-> "dict", tables |-> tables, columns |-> columns, filters |-> filters,
     aggregation |-> aggregation, group_by |-> <<>>, order_by |-> order_by, limit |-> limit]

NonMapping == [type |-> "list"]

(***************************************************************************)
(* QueryGenerator  (sql_agent_components/query_generator.py)               *)
(* A value that may be None is a sequence: <<>> for None, <<v>> for v.      *)
(***************************************************************************)
\* the tokens of a text of an intent (a filter, a column, an order_by entry);
\* a text that is not listed is one token
Tokens(text) ==
    CASE text = "estate_id = 1" -> <<"estate_id", " ", "=", " ", "1">>
      [] text = "price=5" -> <<"price", "=", "5">>
      [] text = "colour = 1" -> <<"colour", " ", "=", " ", "1">>
      [] text = "unit_id = 1" -> <<"unit_id", " ", "=", " ", "1">>
      [] text = "estate_id > 1" -> <<"estate_id", " ", ">", " ", "1">>
      [] text = "estate_id = 1; DROP TABLE estates" ->
            <<"estate_id", " ", "=", " ", "1", ";", " ", "DROP", " ", "TABLE", " ", "estates">>
      [] text = "estate_id = 1; --" -> <<"estate_id", " ", "=", " ", "1", ";", " ", "--">>
      [] text = "price DESC" -> <<"price", " ", "DESC">>
      [] text = "price; delete from estates" ->
            <<"price", ";", " ", "delete", " ", "from", " ", "estates">>
      [] text = "Avg Price" -> <<"Avg", " ", "Price">>
      [] OTHER -> <<text>>

\* col.lower() and col.lower().replace(' ', '_') of a text of an intent
LowerText(col) == IF col = "Avg Price" THEN "avg price" ELSE Lower(col)
ColumnKey(col) == IF col = "Avg Price" THEN "avg_price" ELSE Lower(col)

\* needle in text, for the lower-case names of the model
Contains(text, needle) ==
    \/ text = needle
    \/ needle = "price" /\ text \in {"avg_ft_price", "avg_price", "market_price", "avg price"}
    \/ needle = "id" /\ text \in {"estate_id", "building_id", "unit_id", "tx_id"}

\* sep.join(parts), every part a token sequence
RECURSIVE Join(_, _)
Join(parts, sep) ==
    IF parts = <<>> THEN <<>>
    ELSE IF Len(parts) = 1 THEN parts[1]
    ELSE parts[1] \o sep \o Join(Tail(parts), sep)

\* the first index of s that satisfies Test, Len(s) + 1 if none does
FirstIndex(s, Test(_)) ==
    Cardinality({i \in 1..Len(s) : \A j \in 1..i : ~Test(s[j])}) + 1

\* the entry of s at index i as a value that may be None: None past the end
FirstOf(s, i) == IF i > Len(s) THEN <<>> ELSE <<s[i]>>

\* a if it is not None, else b
FirstPresent(a, b) == IF a # <<>> THEN a ELSE b

_find_column_table(column, tables, schema_info) ==
    FirstOf(tables, FirstIndex(tables, LAMBDA t : ColumnIn(schema_info, t, column)))

_column_exists_in_tables(column, tables, schema_info) ==
    \E i \in 1..Len(tables) : ColumnIn(schema_info, tables[i], column)

\* the columns of the tables of the slice, table after table
RECURSIVE ColumnsOf(_, _)
ColumnsOf(tables, schema_info) ==
    IF tables = <<>> THEN <<>>
    ELSE (IF Head(tables) \in DOMAIN schema_info
          THEN schema_info[Head(tables)].columns ELSE <<>>)
         \o ColumnsOf(Tail(tables), schema_info)

price_candidates == <<"price", "avg_ft_price", "avg_net_ft_price", "unit_price">>

\* lines 111-116, then lines 119-123 over the columns cols of the tables
FallbackAmong(invalid_col, tables, schema_info, cols) ==
    FirstPresent(
        IF Contains(LowerText(invalid_col), "price")
        THEN FirstOf(price_candidates,
                     FirstIndex(price_candidates,
                                LAMBDA c : _column_exists_in_tables(c, tables, schema_info)))
        ELSE <<>>,
        FirstOf(cols,
                FirstIndex(cols, LAMBDA c : \/ Contains(LowerText(c), LowerText(invalid_col))
                                            \/ Contains(LowerText(invalid_col), LowerText(c)))))

_find_fallback_column(invalid_col, tables, schema_info) ==
    FallbackAmong(invalid_col, tables, schema_info, ColumnsOf(tables, schema_info))

\* semantic_mapping.get(key) of _select_aggregation_column
SelectionMapping(key) ==
    CASE key \in {"price", "avg_price", "average_price", "transaction_price", "sale_price"}
              -> <<"price">>
      [] key = "market_price" -> <<"avg_ft_price">>
      [] key = "net_price" -> <<"avg_net_ft_price">>
      [] key = "rent_price" -> <<"avg_ft_rent">>
      [] key = "net_rent_price" -> <<"avg_net_ft_rent">>
      [] OTHER -> <<>>

\* semantic_mapping.get(key) of _fix_column_mappings
semantic_mapping(key) ==
    IF key = "avg_net_ft_price" THEN <<"price">> ELSE SelectionMapping(key)

\* lines 88-103, for the mapped_col of the column
FixColumnMapped(col, mapped_col, tables, schema_info) ==
    IF mapped_col # <<>> /\ _column_exists_in_tables(mapped_col[1], tables, schema_info)
    THEN mapped_col[1]
    ELSE IF _column_exists_in_tables(col, tables, schema_info) THEN col
    ELSE FirstPresent(_find_fallback_column(col, tables, schema_info), <<col>>)[1]

FixColumn(col, tables, schema_info) ==
    FixColumnMapped(col, semantic_mapping(ColumnKey(col)), tables, schema_info)

_fix_column_mappings(intent, schema_info) ==
    [intent EXCEPT !.columns =
        [i \in 1..Len(intent.columns) |-> FixColumn(intent.columns[i], intent.tables, schema_info)]]

\* The dicts of a call, by the name that holds them: "intent" is the dict the
\* caller passed.  fixed_intent = intent gives the one dict a second name
SameDict(dicts, name) == [name |-> name, dicts |-> dicts]

\* line 68: fixed_intent = intent.copy(), a new dict with the values of the old
dict_copy(dicts, name) ==
    [name |-> "fixed_intent",
     dicts |-> [d \in DOMAIN dicts \cup {"fixed_intent"} |->
                  IF d = "fixed_intent" THEN dicts[name] ELSE dicts[d]]]

\* line 105: fixed_intent['columns'] = fixed_columns
SetColumns(copied, fixed_columns) ==
    [name |-> copied.name,
     dicts |-> [copied.dicts EXCEPT ![copied.name].columns = fixed_columns]]

\* lines 66-106 on the dicts: the name of the dict returned, and the dicts
FixOnDicts(intent, schema_info) ==
    SetColumns(dict_copy([d \in {"intent"} |-> intent], "intent"),
               _fix_column_mappings(intent, schema_info).columns)

\* a join only for more than two tables
_determine_query_typeJoinOverTwo(intent) ==
    IF Truthy(intent.aggregation) /\ Len(intent.tables) > 2 THEN "aggregation_with_join"
    ELSE IF Truthy(intent.aggregation) THEN "simple_aggregation"
    ELSE "simple_select"

\* lines 127-138
_determine_query_type(intent) ==
    IF Truthy(intent.aggregation) /\ Len(intent.tables) > 1 THEN "aggregation_with_join"
    ELSE IF Truthy(intent.aggregation) THEN "simple_aggregation"
    ELSE "simple_select"

\* the column the semantic mapping gives, when the tables have it
MappedPresent(col, tables, schema_info) ==
    SelectionMapping(ColumnKey(col)) # <<>>
        /\ _column_exists_in_tables(SelectionMapping(ColumnKey(col))[1], tables, schema_info)

\* the semantic mapping of a column that may be None
MappingOf(col) == IF col = <<>> THEN <<>> ELSE SelectionMapping(ColumnKey(col[1]))

\* lines 206-224: the three searches, the first that finds a column wins
SelectAmong(columns, tables, schema_info) ==
    FirstPresent(
        FirstPresent(
            MappingOf(FirstOf(columns,
                              FirstIndex(columns,
                                         LAMBDA c : MappedPresent(c, tables, schema_info)))),
            FirstOf(columns,
                    FirstIndex(columns,
                               LAMBDA c : _column_exists_in_tables(c, tables, schema_info)))),
        FirstOf(price_candidates,
                FirstIndex(price_candidates,
                           LAMBDA c : _column_exists_in_tables(c, tables, schema_info))))

_select_aggregation_column(intent, schema_info) ==
    SelectAmong(intent.columns, intent.tables, schema_info)

_get_table_alias(table_name) ==
    CASE table_name = "estates" -> "e"
      [] table_name = "buildings" -> "b"
      [] table_name = "units" -> "u"
      [] table_name = "transactions" -> "t"
      [] table_name = "estate_monthly_market_info" -> "emmi"
      [] table_name = "ghosts" -> "g"

_build_join_pathDirect(tables) ==
    IF "estates" \in Range(tables) /\ "transactions" \in Range(tables)
    THEN << [from_clause |-> <<"estates", " ", "e">>,
             join_clauses |->
                << <<"JOIN", " ", "transactions", " ", "t", " ", "ON", " ",
                     "e", ".", "estate_id", " ", "=", " ", "t", ".", "unit_id">> >>] >>
    ELSE <<>>

_build_join_path(tables) ==
    IF "estates" \in Range(tables) /\ "transactions" \in Range(tables)
    THEN << [from_clause |-> <<"estates", " ", "e">>,
             join_clauses |->
                << <<"JOIN", " ", "buildings", " ", "b", " ", "ON", " ",
                     "e", ".", "estate_id", " ", "=", " ", "b", ".", "estate_id">>,
                   <<"JOIN", " ", "units", " ", "u", " ", "ON", " ",
                     "b", ".", "building_id", " ", "=", " ", "u", ".", "building_id">>,
                   <<"JOIN", " ", "transactions", " ", "t", " ", "ON", " ",
                     "u", ".", "unit_id", " ", "=", " ", "t", ".", "unit_id">> >>] >>
    ELSE <<>>

\* how many tokens of s, from index i on, are in S without a break
Run(s, i, S) == Cardinality({n \in i..Len(s) : \A j \in i..n : s[j] \in S})

\* '.' does not match a line break: the tokens up to the first one
FirstLine(s) == SubSeq(s, 1, Cardinality({n \in 1..Len(s) : \A j \in 1..n : s[j] # "\n"}))

\* the groups, for a word of k tokens, the '=' at index eq and the value from index r
\* on (white space is given back to '.+' when nothing else follows the '=')
FilterGroups(f, k, eq, r) ==
    IF k >= 1 /\ eq <= Len(f) /\ f[eq] = "="
       /\ (r <= Len(f) \/ \E i \in (eq+1)..(r-1) : f[i] = " ")
    THEN << [column |-> IF k = 1 THEN f[1] ELSE "",
             value |-> IF r <= Len(f) THEN FirstLine(SubSeq(f, r, Len(f))) ELSE <<" ">>] >>
    ELSE <<>>

FilterAfterEq(f, k, eq) == FilterGroups(f, k, eq, eq + Run(f, eq + 1, Whitespace) + 1)

FilterAfterWord(f, k) == FilterAfterEq(f, k, k + Run(f, k + 1, Whitespace) + 1)

\* re.match(r'(\w+)\s*=\s*(.+)', filter_str) on the tokens of the filter: <<>> when
\* there is no match, else the groups.  A column spelt by several word tokens is
\* no name of the model (written "").
FilterMatch(f) == FilterAfterWord(f, Run(f, 1, WordTokens))

\* lines 345-350: the condition for a column found in table
ConditionIn(match, table, joined) ==
    IF table = <<>> THEN <<>>
    ELSE << << IF joined /\ table[1] = "estates" THEN "e"
               ELSE IF joined /\ table[1] = "transactions" THEN "t"
               ELSE table[1],
               ".", match[1].column, " ", "=", " " >> \o match[1].value >>

\* lines 338-351: the condition a filter contributes, <<>> when it contributes none
ConditionOf(match, tables, schema_info) ==
    IF match = <<>> THEN <<>>
    ELSE ConditionIn(match, _find_column_table(match[1].column, tables, schema_info),
                     Len(tables) > 1)

RECURSIVE Conditions(_, _, _)
Conditions(filters, tables, schema_info) ==
    IF filters = <<>> THEN <<>>
    ELSE ConditionOf(FilterMatch(Tokens(Head(filters))), tables, schema_info)
            \o Conditions(Tail(filters), tables, schema_info)

\* ' AND '.join(conditions) if conditions else None
JoinedConditions(conditions) ==
    IF conditions = <<>> THEN <<>> ELSE << Join(conditions, <<" ", "AND", " ">>) >>

_build_where_conditions(filters, tables, schema_info) ==
    JoinedConditions(Conditions(filters, tables, schema_info))

\* sql += f" WHERE {where_conditions}"
AppendWhere(sql, where_conditions) ==
    IF where_conditions = <<>> THEN sql
    ELSE sql \o <<" ", "WHERE", " ">> \o where_conditions[1]

WithWhere(sql, filters, tables, schema_info) ==
    AppendWhere(sql, IF filters = <<>> THEN <<>>
                     ELSE _build_where_conditions(filters, tables, schema_info))

AggregationClauseAsGiven(aggregation, target, column) ==
    <<aggregation.str, "(">> \o target
        \o <<")", " ", "AS", " ", aggregation.str, "_", column>>

\* f"{aggregation.upper()}({target}) AS {aggregation}_{column}"
AggregationClause(aggregation, target, column) ==
    <<Upper(aggregation.str), "(">> \o target
        \o <<")", " ", "AS", " ", aggregation.str, "_", column>>

\* lines 166-185, for the column, its table and the join path found
JoinQueryOn(intent, schema_info, column, target_table, join_path) ==
    IF Len(intent.tables) < 2 \/ column = <<>> \/ target_table = <<>> \/ join_path = <<>>
       \/ intent.aggregation.type # "str"
    THEN <<>>
    ELSE << WithWhere(<<"SELECT", " ">>
                        \o AggregationClause(intent.aggregation,
                               <<_get_table_alias(target_table[1]), ".", column[1]>>,
                               column[1])
                        \o <<" ", "FROM", " ">> \o join_path[1].from_clause
                        \o <<" ">> \o Join(join_path[1].join_clauses, <<" ">>),
                      intent.filters, intent.tables, schema_info) >>

JoinQueryFor(intent, schema_info, column) ==
    JoinQueryOn(intent, schema_info, column,
                IF column = <<>> THEN <<>>
                ELSE _find_column_table(column[1], intent.tables, schema_info),
                _build_join_path(intent.tables))

\* None also stands for an exception raised inside (generate_query catches it):
\* aggregation.upper() of a value that is no str
_generate_aggregation_join_query(intent, schema_info) ==
    JoinQueryFor(intent, schema_info, _select_aggregation_column(intent, schema_info))

\* None also stands for an exception raised inside: the [0] of an empty list,
\* aggregation.upper() of a value that is no str
_generate_simple_aggregation_query(intent, schema_info) ==
    IF intent.tables = <<>> \/ intent.tables[1] \notin DOMAIN schema_info
       \/ intent.columns = <<>>
       \/ ~ColumnIn(schema_info, intent.tables[1], intent.columns[1])
       \/ intent.aggregation.type # "str"
    THEN <<>>
    ELSE << WithWhere(<<"SELECT", " ">>
                        \o AggregationClause(intent.aggregation, <<intent.columns[1]>>,
                                             intent.columns[1])
                        \o <<" ", "FROM", " ", intent.tables[1]>>,
                      intent.filters, <<intent.tables[1]>>, schema_info) >>

\* ', '.join(texts)
CommaJoined(texts) == Join([i \in 1..Len(texts) |-> Tokens(texts[i])], <<",", " ">>)

\* lines 300-310: ORDER BY and LIMIT
OrderedAndLimited(sql, order_by, limit) ==
    sql \o (IF order_by # <<>>
            THEN <<" ", "ORDER", " ", "BY", " ">> \o CommaJoined(order_by) ELSE <<>>)
        \o (IF Truthy(limit) THEN <<" ", "LIMIT", " ", limit.str>> ELSE <<>>)

\* None also stands for an exception raised inside: the [0] of an empty list
_generate_simple_select_query(intent, schema_info) ==
    IF intent.tables = <<>> \/ intent.tables[1] \notin DOMAIN schema_info
    THEN <<>>
    ELSE << OrderedAndLimited(
                WithWhere(<<"SELECT", " ">>
                            \o (IF intent.columns = <<"*">> THEN <<"*">>
                                ELSE CommaJoined(intent.columns))
                            \o <<" ", "FROM", " ", intent.tables[1]>>,
                          intent.filters, <<intent.tables[1]>>, schema_info),
                intent.order_by, intent.limit) >>

\* lines 46-53
QueryOfType(query_type, fixed_intent, schema_info) ==
    IF query_type = "aggregation_with_join"
    THEN _generate_aggregation_join_query(fixed_intent, schema_info)
    ELSE IF query_type = "simple_aggregation"
    THEN _generate_simple_aggregation_query(fixed_intent, schema_info)
    ELSE _generate_simple_select_query(fixed_intent, schema_info)

QueryFor(fixed_intent, schema_info) ==
    QueryOfType(_determine_query_type(fixed_intent), fixed_intent, schema_info)

\* the exception raised inside _generate_simple_aggregation_query, <<>> when none is:
\* the [0] of an empty list, aggregation.upper() of a value that is no str
SimpleAggregationRaises(intent, schema_info) ==
    IF intent.tables = <<>> THEN <<"IndexError">>
    ELSE IF intent.tables[1] \notin DOMAIN schema_info THEN <<>>
    ELSE IF intent.columns = <<>> THEN <<"IndexError">>
    ELSE IF ~ColumnIn(schema_info, intent.tables[1], intent.columns[1]) THEN <<>>
    ELSE IF intent.aggregation.type # "str" THEN <<"AttributeError">>
    ELSE <<>>

\* the exception raised inside _generate_aggregation_join_query, <<>> when none is
JoinRaises(intent, schema_info, column) ==
    IF Len(intent.tables) < 2 \/ column = <<>>
       \/ _find_column_table(column[1], intent.tables, schema_info) = <<>>
       \/ _build_join_path(intent.tables) = <<>>
    THEN <<>>
    ELSE IF intent.aggregation.type # "str" THEN <<"AttributeError">>
    ELSE <<>>

\* the exception raised inside the query function of the type, <<>> when none is
RaisesOfType(query_type, fixed_intent, schema_info) ==
    IF query_type = "aggregation_with_join"
    THEN JoinRaises(fixed_intent, schema_info,
                    _select_aggregation_column(fixed_intent, schema_info))
    ELSE IF query_type = "simple_aggregation"
    THEN SimpleAggregationRaises(fixed_intent, schema_info)
    ELSE IF fixed_intent.tables = <<>> THEN <<"IndexError">>
    ELSE <<>>

RaisesFor(fixed_intent, schema_info) ==
    RaisesOfType(_determine_query_type(fixed_intent), fixed_intent, schema_info)

\* the exception raised inside the try block of generate_query, <<>> when none is;
\* intent.get of a value that is no mapping raises AttributeError
RaisedInside(intent, schema_info) ==
    IF intent.type # "dict" THEN <<"AttributeError">>
    ELSE RaisesFor(_fix_column_mappings(intent, schema_info), schema_info)

\* lines 38-60: the try block
GenerateTry(intent, schema_info) ==
    IF RaisedInside(intent, schema_info) # <<>>
    THEN [exception |-> RaisedInside(intent, schema_info), sql |-> <<>>]
    ELSE [exception |-> <<>>,
          sql |-> QueryFor(_fix_column_mappings(intent, schema_info), schema_info)]

GenerateReraise(attempt) == [raised |-> attempt.exception, sql |-> attempt.sql]

\* lines 62-64: except Exception: return None
GenerateCatch(attempt) == [raised |-> <<>>, sql |-> attempt.sql]

generate_query(intent, schema_info) ==
    GenerateCatch(GenerateTry(intent, schema_info)).sql

(***************************************************************************)
(* generate_query called on arbitrary intents, with the schema slice the   *)
(* validator gives for them                                                *)
(***************************************************************************)
\* a store that holds the estates table only
EstatesOnly == [t \in {"estates"} |-> StoreSchema[t]]

QGSchemas == {StoreSchema, EstatesOnly, <<>>}
QGTables ==
    {<<>>, <<"estates">>, <<"transactions">>, <<"ghosts">>,
     <<"estates", "transactions">>, <<"transactions", "estates">>, <<"estates", "units">>,
     <<"units", "estates", "transactions">>,
     <<"estate_monthly_market_info", "estates", "transactions">>}
QGColumns ==
    {<<>>, <<"price">>, <<"estate_id">>, <<"avg_price">>, <<"avg_ft_price">>, <<"Avg Price">>,
     <<"colour">>, <<"estate_id", "price">>}
QGFilters ==
    {<<>>, <<"estate_id = 1">>, <<"price=5">>, <<"estate_id > 1">>, <<"unit_id = 1">>,
     <<"colour = 1", "price=5">>}
QGAggregations == {PyNone, PyStr("avg"), PyStr("count"), PyStr(""), PyStr("median"), PyTrue}
QGGroupBys == {<<>>, <<"estate_id">>}
QGOrderBys == {<<>>, <<"price DESC">>}
QGLimits == {PyNone, PyInt(5), PyInt(0)}

QGIntents ==
    {[Mapping(t, c, f, a, o, l) EXCEPT !.group_by = g] :
        t \in QGTables, c \in QGColumns, f \in QGFilters, a \in QGAggregations,
        g \in QGGroupBys, o \in QGOrderBys, l \in QGLimits}
    \cup {NonMapping}

\* the caller holds an intent and what validate_intent said of it (a value that is
\* no mapping has no validation result)
QGInit ==
    /\ \E intent \in QGIntents : \E cache \in QGSchemas :
          qg = [pc |-> "called", intent |-> intent,
                valid |-> intent.type = "dict" /\ validate_intent(cache, intent).valid,
                schema_info |-> IF intent.type = "dict"
                                THEN _get_relevant_schema_info(cache, intent) ELSE <<>>,
                intent_after |-> intent, fixed_intent |-> <<>>,
                query_type |-> <<>>, exception |-> <<>>, outcome |-> <<>>]
    /\ rf = <<>>
    /\ ip = <<>>
    /\ ss = <<>>
    /\ QVIdle
    /\ SVIdle
    /\ ExOff
    /\ PLOff

QGGenerate ==
    /\ qg.pc = "called"
    /\ qg' = [qg EXCEPT !.pc = "returned",
                        !.intent_after =
                            IF qg.intent.type # "dict" THEN qg.intent
                            ELSE FixOnDicts(qg.intent, qg.schema_info).dicts["intent"],
                        !.fixed_intent =
                            IF qg.intent.type # "dict" THEN <<>>
                            ELSE <<FixOnDicts(qg.intent, qg.schema_info).dicts[
                                        FixOnDicts(qg.intent, qg.schema_info).name]>>,
                        !.query_type =
                            IF qg.intent.type # "dict" THEN <<>>
                            ELSE <<_determine_query_type(
                                        _fix_column_mappings(qg.intent, qg.schema_info))>>,
                        !.exception = GenerateTry(qg.intent, qg.schema_info).exception,
                        !.outcome = <<GenerateCatch(GenerateTry(qg.intent, qg.schema_info))>>]
    /\ UNCHANGED <<rf, ip, ss, qv_vars, sv_vars, ex_vars, pl_vars>>

QGNext == QGGenerate

SpecQG == QGInit /\ [][QGNext]_vars

(***************************************************************************)
(* ResultFormatter  (sql_agent_components/result_formatter.py)             *)
(* display_text is a sequence of tokens, a number one token per character.  *)
(***************************************************************************)
\* A cell value is [type, n, s]: its class, its number (for a float the number of
\* quarters, so 10 stands for 2.5; such floats are exact in binary) and its text
\* when it is a str.  A row is a dict: a function from column name to cell value.
CellNone == [type |-> "NoneType", n |-> 0, s |-> ""]
CellInt(n) == [type |-> "int", n |-> n, s |-> ""]
CellFloat(quarters) == [type |-> "float", n |-> quarters, s |-> ""]
CellStr(t) == [type |-> "str", n |-> 0, s |-> t]
CellTrue == [type |-> "bool", n |-> 1, s |-> ""]

DigitChar == <<"0", "1", "2", "3", "4", "5", "6", "7", "8", "9">>

\* str(n) of an integer n >= 0, one token per character
RECURSIVE Digits(_)
Digits(n) ==
    IF n < 10 THEN <<DigitChar[n + 1]>>
    ELSE Digits(n \div 10) \o <<DigitChar[(n % 10) + 1]>>

\* format(n, ',') of an integer n >= 0: a comma before every group of three digits
RECURSIVE Grouped(_)
Grouped(n) ==
    IF n < 1000 THEN Digits(n)
    ELSE Grouped(n \div 1000)
            \o <<",", DigitChar[((n % 1000) \div 100) + 1],
                 DigitChar[((n \div 10) % 10) + 1], DigitChar[(n % 10) + 1]>>

Abs(n) == IF n < 0 THEN -n ELSE n

\* the sign a negative number is written with
Minus(n) == IF n < 0 THEN <<"-">> ELSE <<>>

\* str(n) of an integer
IntStr(n) == Minus(n) \o Digits(Abs(n))

\* q quarters rounded to a whole number, a half going to the even neighbour (q >= 0)
RoundHalfEven(q) ==
    IF q % 4 < 2 THEN q \div 4
    ELSE IF q % 4 > 2 THEN (q \div 4) + 1
    ELSE IF (q \div 4) % 2 = 0 THEN q \div 4 ELSE (q \div 4) + 1

\* the value of an int, float or bool rounded to a whole number, sign apart
WholeOf(value) ==
    IF value.type = "float" THEN RoundHalfEven(Abs(value.n)) ELSE Abs(value.n)

\* the amount without its thousands separators
CurrencyUngrouped(value) == <<"HK$">> \o Minus(value.n) \o Digits(WholeOf(value))

\* f"HK${value:,.0f}"
Currency(value) == <<"HK$">> \o Minus(value.n) \o Grouped(WholeOf(value))

\* the words of a column name in lower case, with the '_' between them
NameParts(col) ==
    CASE col \in {"avg_price", "AVG_PRICE"} -> <<"avg", "_", "price">>
      [] col = "avg_ft_price" -> <<"avg", "_", "ft", "_", "price">>
      [] col = "sum_net_ft_price" -> <<"sum", "_", "net", "_", "ft", "_", "price">>
      [] col = "estate_id" -> <<"estate", "_", "id">>
      [] col = "estate_name_en" -> <<"estate", "_", "name", "_", "en">>
      [] col = "max_floor" -> <<"max", "_", "floor">>
      [] OTHER -> <<LowerText(col)>>

\* word in column.lower(), for the names of the model (no word of theirs holds
\* another of the words looked for)
HasWord(col, word) == word \in Range(NameParts(col))

\* len(str(col))
CharLen(col) ==
    CASE col \in {"avg_price", "AVG_PRICE", "estate_id", "max_floor"} -> 9
      [] col = "avg_ft_price" -> 12
      [] col = "sum_net_ft_price" -> 16
      [] col = "estate_name_en" -> 14
      [] col \in {"price", "count", "total"} -> 5
      [] col = "name" -> 4

\* any(curr in column_name.lower() for curr in self.currency_fields): each of the
\* currency fields holds the text price, and price is one of them
IsCurrency(column_name) == HasWord(column_name, "price")

\* lines 177-202
_format_value(value, column_name) ==
    IF value.type = "NoneType" THEN <<"N/A">>
    ELSE IF IsCurrency(column_name) /\ value.type \in {"int", "float", "bool"}
    THEN Currency(value)
    ELSE IF value.type = "float"
    THEN (IF value.n % 4 = 0
          THEN Minus(value.n) \o Digits(Abs(value.n) \div 4)
          ELSE Minus(value.n) \o Digits(Abs(value.n) \div 4) \o <<".">>
                  \o Digits(((Abs(value.n) % 4) * 25) \div 10)
                  \o Digits(((Abs(value.n) % 4) * 25) % 10))
    ELSE IF value.type = "int" /\ Abs(value.n) > 1000
    THEN Minus(value.n) \o Grouped(Abs(value.n))
    ELSE IF value.type = "int" THEN IntStr(value.n)
    ELSE IF value.type = "bool" THEN <<"True">>
    ELSE <<value.s>>

agg_indicators == <<"avg", "sum", "count", "min", "max", "total">>

\* any(indicator in col.lower() for indicator in agg_indicators)
HasAggIndicator(col) == \E i \in 1..Len(agg_indicators) : HasWord(col, agg_indicators[i])

_is_aggregation_result(data, columns) ==
    data # <<>> /\ columns # <<>> /\ \E i \in 1..Len(columns) : HasAggIndicator(columns[i])

\* len(data) == 1 and len(data[0]) == 1: a row is a dict keyed by column name
_is_single_value_result(data, columns) ==
    Len(data) = 1 /\ Cardinality(DOMAIN data[1]) = 1

\* lines 208-220
AggType(column) ==
    IF HasWord(column, "avg") THEN "average"
    ELSE IF HasWord(column, "sum") THEN "total"
    ELSE IF HasWord(column, "count") THEN "count"
    ELSE IF HasWord(column, "min") THEN "minimum"
    ELSE IF HasWord(column, "max") THEN "maximum"
    ELSE "result"

\* lines 223-227: the name without its aggregation prefix
FieldName(parts) ==
    IF Len(parts) >= 2 /\ parts[1] \in Range(agg_indicators) /\ parts[2] = "_"
    THEN SubSeq(parts, 3, Len(parts))
    ELSE parts

\* lines 230-237: field_aliases.get(field_name, field_name.replace('_', ' '))
FieldDesc(field_name) ==
    IF field_name = <<"net", "_", "ft", "_", "price">>
    THEN <<"net", " ", "price", " ", "per", " ", "sq", " ", "ft">>
    ELSE IF field_name = <<"avg", "_", "ft", "_", "price">>
    THEN <<"average", " ", "price", " ", "per", " ", "sq", " ", "ft">>
    ELSE [i \in 1..Len(field_name) |-> IF field_name[i] = "_" THEN " " ELSE field_name[i]]

_get_aggregation_description(column) ==
    <<"The", " ", AggType(column), " ">> \o FieldDesc(FieldName(NameParts(column)))

\* the keys of a row, in the order of the columns, each once
FirstKeys(columns) ==
    [n \in 1..Cardinality({i \in 1..Len(columns) : \A j \in 1..(i-1) : columns[j] # columns[i]})
        |-> columns[CHOOSE i \in 1..Len(columns) :
                      /\ \A j \in 1..(i-1) : columns[j] # columns[i]
                      /\ Cardinality({k \in 1..i : \A j \in 1..(k-1) : columns[j] # columns[k]}) = n]]

\* lines 93-100: one part for every value of the row that is not None
FormattedParts(row, keys) ==
    [i \in 1..Len(keys) |->
        _get_aggregation_description(keys[i]) \o <<":", " ">>
            \o _format_value(row[keys[i]], keys[i])]

_format_aggregation_result(data, columns) ==
    [result_type |-> "aggregation",
     display_text |->
        Join(FormattedParts(data[1],
                            SelectSeq(FirstKeys(columns),
                                      LAMBDA c : data[1][c].type # "NoneType")),
             <<" ">>),
     raw_data |-> data,
     formatted_values |-> [c \in Range(columns) |-> _format_value(data[1][c], c)]]

_format_single_value_result(data, columns) ==
    [result_type |-> "single_value",
     display_text |-> <<"The result is: ">> \o _format_value(data[1][columns[1]], columns[1]),
     raw_data |-> data,
     formatted_value |-> _format_value(data[1][columns[1]], columns[1])]

max_display_rows == 10

\* "-" * len(header), the header being " | ".join(columns)
RECURSIVE HeaderLen(_, _)
HeaderLen(columns, i) ==
    IF i > Len(columns) THEN 0
    ELSE CharLen(columns[i]) + (IF i > 1 THEN 3 ELSE 0) + HeaderLen(columns, i + 1)

Rule(columns) == [i \in 1..HeaderLen(columns, 1) |-> "-"]

\* lines 154-175: the lines of the text table
_create_text_table(data, columns) ==
    IF data = <<>> \/ columns = <<>> THEN <<>>
    ELSE << Join([i \in 1..Len(columns) |-> <<columns[i]>>], <<" | ">>), Rule(columns) >>
         \o [r \in 1..Len(data) |->
                Join([i \in 1..Len(columns) |-> _format_value(data[r][columns[i]], columns[i])],
                     <<" | ">>)]

\* lines 127-152, for the rows displayed
TableOf(data, columns, row_count, display_data) ==
    [result_type |-> "table",
     display_text |->
        Join(<< <<"Found ">> \o IntStr(row_count) \o <<" results:">> >>
                \o (IF Len(display_data) <= 5 THEN <<>>
                    ELSE << <<"Showing first ">> \o IntStr(Len(display_data)) \o <<" rows:">> >>)
                \o _create_text_table(display_data, columns)
                \o (IF Len(data) > max_display_rows
                    THEN << <<"... and ">> \o IntStr(row_count - max_display_rows)
                                \o <<" more rows">> >>
                    ELSE <<>>),
             <<"\n">>),
     raw_data |-> data,
     display_rows |-> Len(display_data),
     has_more_display |-> Len(data) > max_display_rows]

_format_table_result(data, columns, row_count) ==
    IF data = <<>> THEN [display_text |-> <<"No results found for your query.">>]
    ELSE TableOf(data, columns, row_count,
                 SubSeq(data, 1, IF Len(data) < max_display_rows
                                 THEN Len(data) ELSE max_display_rows))

_format_error_result(execution_result) ==
    [success |-> FALSE,
     error_type |-> execution_result.error_type,
     display_text |-> <<"Sorry, I couldn't execute your query: ", execution_result.error>>,
     technical_details |-> [error |-> execution_result.error,
                            error_type |-> execution_result.error_type]]

\* lines 36-41
FormatSuccess(data, columns, row_count) ==
    IF _is_aggregation_result(data, columns)
    THEN _format_aggregation_result(data, columns)
    ELSE IF _is_single_value_result(data, columns)
    THEN _format_single_value_result(data, columns)
    ELSE _format_table_result(data, columns, row_count)

\* lines 44-49: formatted.update({...})
WithMetadata(formatted, execution_result) ==
    [execution_time |-> <<execution_result.execution_time, "s">>,
     total_rows |-> execution_result.row_count,
     has_more |-> execution_result.has_more] @@ formatted

format_results(execution_result) ==
    IF ~execution_result.success
    THEN _format_error_result(execution_result)
    ELSE WithMetadata(FormatSuccess(execution_result.data, execution_result.columns,
                                    execution_result.row_count),
                      execution_result)

\* lines 26-49 raise where the code reads what is not there: .get of a value that
\* is no dict, and the format :.3f of an execution time that is no number
FormatRaises(execution_result) ==
    IF execution_result.type # "dict" THEN <<"AttributeError">>
    ELSE IF execution_result.success /\ execution_result.execution_time = "None"
    THEN <<"TypeError">>
    ELSE <<>>

RFColumns ==
    {<<"avg_price">>, <<"count">>, <<"estate_id">>, <<"price">>, <<"max_floor">>,
     <<"estate_name_en", "price">>, <<"estate_id", "avg_price">>,
     <<"estate_id", "estate_id">>}
RFValues ==
    {CellNone, CellInt(42), CellInt(1234567), CellInt(-1500), CellFloat(31183426),
     CellFloat(10), CellFloat(4002), CellStr("Lohas Park"), CellTrue}
RFDataLens == {0, 1, 2, 6, 10, 12}
RFRowCounts == {0, 100}
RFErrorTypes == {"operational", "integrity", "unexpected", "safety"}

\* a result of row_count = len(data) rows unless told otherwise
ExecutionResult(columns, value, n, told, has_more, execution_time) ==
    [type |-> "dict", success |-> TRUE,
     data |-> [r \in 1..n |-> [c \in Range(columns) |-> value]],
     columns |-> columns, row_count |-> IF told = 0 THEN n ELSE told,
     has_more |-> has_more, execution_time |-> execution_time]

FailedExecution(error_type) ==
    [type |-> "dict", success |-> FALSE, error |-> "no such table: ghosts",
     error_type |-> error_type]

RFInputs ==
    {ExecutionResult(c, v, n, t, h, "0.050") :
        c \in RFColumns, v \in RFValues, n \in RFDataLens, t \in RFRowCounts, h \in BOOLEAN}
    \cup {ExecutionResult(<<"price">>, CellInt(42), n, 0, FALSE, "None") : n \in {0, 1}}
    \cup {FailedExecution(e) : e \in RFErrorTypes}
    \cup {NonMapping}

RFInit ==
    /\ \E e \in RFInputs :
          rf = [pc |-> "called", execution_result |-> e, exception |-> <<>>,
                formatted |-> <<>>]
    /\ qg = <<>> /\ ip = <<>> /\ ss = <<>>
    /\ QVIdle /\ SVIdle /\ ExOff /\ PLOff

\* one call of format_results: it returns the formatted result or raises
RFFormat ==
    /\ rf # <<>> /\ rf.pc = "called"
    /\ rf' = [rf EXCEPT
                !.pc = "returned",
                !.exception = FormatRaises(rf.execution_result),
                !.formatted = IF FormatRaises(rf.execution_result) # <<>> THEN <<>>
                              ELSE <<format_results(rf.execution_result)>>]
    /\ UNCHANGED <<qg, ip, ss, qv_vars, sv_vars, ex_vars, pl_vars>>

RFNext == RFFormat

SpecRF == RFInit /\ [][RFNext]_vars

(***************************************************************************)
(* IntentParser.parse  (sql_agent_components/intent_parser.py)             *)
(***************************************************************************)
\* what the language model answers: nothing in time, text that is no JSON, JSON
\* of a false value ({}, [], null, 0), or JSON of the value given
Response(kind, value) == [kind |-> kind, value |-> value]

parse(response) ==
    IF response.kind \in {"timeout", "malformed", "falsy"} THEN <<>>
    ELSE <<response.value>>

\* The steps of one call of parse.  ip is the call: its position, its timeout in
\* seconds, whether an event loop is already running in the calling thread, the
\* calls made of the service, the seconds waited, the response of the service
\* and what parse returned (<<>> is None).
default_timeout == 10
MaxCalls == 2

IPTimeouts == {1, 3, default_timeout}
\* The text of a response, in tokens: prose, white space, and the marks and members
\* of JSON ("members" stands for the members of the intent object, "1" for a number).
\* json.loads of a text: <<>> when it raises JSONDecodeError, else the value read
\* (an object, a list, a number, null)
JsonIntent == Mapping(<<"estates">>, <<"price">>, <<>>, PyNone, <<>>, PyNone)

json_loads(t) ==
    CASE t = <<"{", "members", "}">> -> <<[json |-> "object", falsy |-> FALSE]>>
      [] t = <<"{", "}">> -> <<[json |-> "object", falsy |-> TRUE]>>
      [] t = <<"[", "1", "]">> -> <<[json |-> "array", falsy |-> FALSE]>>
      [] t = <<"[", "{", "members", "}", "]">> -> <<[json |-> "array", falsy |-> FALSE]>>
      [] t = <<"[", "]">> -> <<[json |-> "array", falsy |-> TRUE]>>
      [] t = <<"1">> -> <<[json |-> "number", falsy |-> FALSE]>>
      [] t = <<"null">> -> <<[json |-> "null", falsy |-> TRUE]>>
      [] OTHER -> <<>>

\* response[start_idx:end_idx] of lines 79-83: from the first '{' to the last '}';
\* without a '{' there is no second attempt, without a '}' the slice is empty
Braced(t) ==
    IF \A i \in 1..Len(t) : t[i] # "{" THEN <<>>
    ELSE SubSeq(t, CHOOSE i \in 1..Len(t) : t[i] = "{" /\ \A j \in 1..(i-1) : t[j] # "{",
                Cardinality({i \in 1..Len(t) : \E j \in i..Len(t) : t[j] = "}"}))

\* lines 70-88
_parse_json_response(t) ==
    IF json_loads(Strip(t)) # <<>> THEN json_loads(Strip(t)) ELSE json_loads(Braced(t))

\* the response as parse sees it: no JSON, JSON of a false value, JSON of a value
ResponseOf(t) ==
    IF _parse_json_response(t) = <<>> THEN Response("malformed", NonMapping)
    ELSE IF _parse_json_response(t)[1].falsy THEN Response("falsy", NonMapping)
    ELSE IF _parse_json_response(t)[1].json = "object" THEN Response("json", JsonIntent)
    ELSE IF _parse_json_response(t)[1].json = "array" THEN Response("json", NonMapping)
    ELSE Response("json", PyInt(1))

IPTexts ==
    {<<"{", "members", "}">>, <<" ", "{", "members", "}", "\n">>,
     <<"Here is the result:", " ", "{", "members", "}">>,
     <<"{", "members", "}", " ", "as asked">>,
     <<"{", "members", "}", " ", "and", " ", "{", "members", "}">>,
     <<"Here is the result:", " ", "[", "{", "members", "}", "]">>,
     <<"I cannot answer">>, <<"{", "members">>, <<"members", "}">>, <<"}", " ", "{">>,
     <<"{", "}">>, <<"[", "1", "]">>, <<"[", "{", "members", "}", "]">>, <<"[", "]">>,
     <<"1">>, <<"null">>}

IPCalled(timeout, in_loop) ==
    [pc |-> "called", timeout |-> timeout, in_loop |-> in_loop, calls |-> 0,
     elapsed |-> 0, text |-> <<>>, response |-> <<>>, raised_inside |-> <<>>, timed_out |-> FALSE,
     result |-> <<>>]

IPInit ==
    /\ \E t \in IPTimeouts : \E l \in BOOLEAN : ip = IPCalled(t, l)
    /\ qg = <<>> /\ rf = <<>> /\ ss = <<>>
    /\ QVIdle /\ SVIdle /\ ExOff /\ PLOff

\* lines 40-49: asyncio.run raises RuntimeError when a loop is running, which the
\* handler of line 66 turns into None; else the chain is invoked, once
IPRun ==
    /\ ip # <<>> /\ ip.pc = "called" /\ ip.calls < MaxCalls
    /\ ip' = IF ip.in_loop
             THEN [ip EXCEPT !.pc = "done", !.raised_inside = <<"RuntimeError">>,
                             !.result = <<>>]
             ELSE [ip EXCEPT !.pc = "waiting", !.calls = @ + 1]
    /\ UNCHANGED <<qg, rf, ss, qv_vars, sv_vars, ex_vars, pl_vars>>

\* a second passes and the service has not answered
IPTick ==
    /\ ip # <<>> /\ ip.pc = "waiting" /\ ip.elapsed < ip.timeout
    /\ ip' = [ip EXCEPT !.elapsed = @ + 1]
    /\ UNCHANGED <<qg, rf, ss, qv_vars, sv_vars, ex_vars, pl_vars>>

\* line 45: the service answers before the timeout, or fails
IPRespond ==
    /\ ip # <<>> /\ ip.pc = "waiting" /\ ip.elapsed < ip.timeout
    /\ \/ \E t \in IPTexts :
              ip' = [ip EXCEPT !.pc = "responded", !.text = t, !.response = <<ResponseOf(t)>>]
       \/ ip' = [ip EXCEPT !.pc = "responded",
                           !.response = <<Response("error", NonMapping)>>]
    /\ UNCHANGED <<qg, rf, ss, qv_vars, sv_vars, ex_vars, pl_vars>>

\* the timeout goes back to the call of the service
AfterTimeoutRetry(run) == [run EXCEPT !.pc = "called", !.elapsed = 0]

\* lines 63-65: return None
AfterTimeout(run) ==
    [run EXCEPT !.pc = "done", !.timed_out = TRUE,
                !.raised_inside = <<"TimeoutError">>, !.result = <<>>]

\* line 49: wait_for cancels the call when the timeout is over
IPTimeout ==
    /\ ip # <<>> /\ ip.pc = "waiting" /\ ip.elapsed = ip.timeout
    /\ ip' = AfterTimeout(ip)
    /\ UNCHANGED <<qg, rf, ss, qv_vars, sv_vars, ex_vars, pl_vars>>

\* lines 51-68: the response is decoded and returned, or None is
IPDecode ==
    /\ ip # <<>> /\ ip.pc = "responded"
    /\ ip' = IF ip.response[1].kind = "error"
             THEN [ip EXCEPT !.pc = "done", !.raised_inside = <<"Exception">>,
                             !.result = <<>>]
             ELSE [ip EXCEPT !.pc = "done", !.result = parse(ip.response[1])]
    /\ UNCHANGED <<qg, rf, ss, qv_vars, sv_vars, ex_vars, pl_vars>>

IPNext == IPRun \/ IPTick \/ IPRespond \/ IPTimeout \/ IPDecode

\* time passes and the event loop runs what is ready
SpecIP == IPInit /\ [][IPNext]_vars /\ WF_vars(IPNext)

(***************************************************************************)
(* get_dynamic_schema_summary  (prompts/sql_agent_prompts.py)              *)
(* One process: the module global _cached_schema_summary, the calls made   *)
(* in it one after the other, and a store whose state is not the process's. *)
(***************************************************************************)
MaxSummaryCalls == 6

\* the store: out of reach, or holding the tables of one schema or of another
SSStores == {"down", "schema 1", "schema 2"}

\* "\n\n".join(schema_lines) read from the store, and the hardcoded text
LiveSummary(store_state) == <<"KEY TABLES AND COLUMNS:", store_state>>
get_fallback_schema_summary == <<"KEY TABLES AND COLUMNS:", "hardcoded">>

SSInit ==
    /\ \E st \in SSStores :
          ss = [cached |-> <<>>, store |-> st, queries |-> 0, returned |-> <<>>]
    /\ qg = <<>> /\ rf = <<>> /\ ip = <<>>
    /\ QVIdle /\ SVIdle /\ ExOff /\ PLOff

\* lines 17-18: the cached text is returned
SSFromCache(call) == [call EXCEPT !.returned = Append(@, call.cached[1])]

\* lines 20-47: the store is queried, the text cached and returned
SSFromStore(call) ==
    [call EXCEPT !.queries = @ + 1,
                 !.cached = <<LiveSummary(call.store)>>,
                 !.returned = Append(@, LiveSummary(call.store))]

\* lines 49-52: the query fails, the hardcoded text is returned and not cached
SSFallback(call) ==
    [call EXCEPT !.queries = @ + 1,
                 !.returned = Append(@, get_fallback_schema_summary)]

\* one call of get_dynamic_schema_summary
SSCall ==
    /\ ss # <<>> /\ Len(ss.returned) < MaxSummaryCalls
    /\ ss' = IF ss.cached # <<>> THEN SSFromCache(ss)
             ELSE IF ss.store # "down" THEN SSFromStore(ss)
             ELSE SSFallback(ss)
    /\ UNCHANGED <<qg, rf, ip, qv_vars, sv_vars, ex_vars, pl_vars>>

\* between two calls the store comes up, goes down or changes its tables
SSStoreChanges ==
    /\ ss # <<>> /\ Len(ss.returned) < MaxSummaryCalls
    /\ \E st \in SSStores \ {ss.store} : ss' = [ss EXCEPT !.store = st]
    /\ UNCHANGED <<qg, rf, ip, qv_vars, sv_vars, ex_vars, pl_vars>>

SSNext == SSCall \/ SSStoreChanges

SpecSS == SSInit /\ [][SSNext]_vars

(***************************************************************************)
(* sql_agent_node  (agents/sql_agent.py)                                   *)
(***************************************************************************)
PLTables ==
    {<<>>, <<"estates">>, <<"ghosts">>, <<"estates", "transactions">>, <<"estates", "units">>}
PLColumns == {<<>>, <<"price">>, <<"estate_id">>, <<"colour">>}
PLFilters ==
    {<<>>, <<"estate_id = 1">>, <<"estate_id = 1; DROP TABLE estates">>,
     <<"estate_id = 1; --">>}
PLAggregations == {PyNone, PyStr("avg"), PyStr("median")}
PLOrderBys == {<<>>, <<"price; delete from estates">>}
PLLimits == {PyNone, PyInt(5)}

LLMResponses ==
    {Response(k, NonMapping) : k \in {"timeout", "malformed", "falsy"}}
    \cup {Response("json", NonMapping)}
    \cup {Response("json", Mapping(t, c, f, a, o, l)) :
            t \in PLTables, c \in PLColumns, f \in PLFilters,
            a \in PLAggregations, o \in PLOrderBys, l \in PLLimits}

Stages ==
    <<"parse", "validate_intent", "generate_query", "validate_query",
      "execute_read_query", "format_results">>

PLEntered ==
    [pc |-> "enter", user_query |-> "", intent |-> <<>>, validation_result |-> <<>>,
     sql_query |-> <<>>, query_validation |-> <<>>, execution_result |-> <<>>,
     formatted_result |-> <<>>, sql_result |-> <<>>, calls |-> <<>>, returns |-> <<>>]

\* return {"sql_result": text}
Return(run, text) == [run EXCEPT !.pc = "done", !.sql_result = <<text>>]

\* the stage is called and returns; how is "success", "failure" or "raised"
Called(run, stage, how) ==
    [run EXCEPT !.calls = Append(run.calls, stage), !.returns = Append(run.returns, how)]

\* lines 138-141: no question, no stage, sql_result None
PLEnter ==
    /\ pl.pc = "enter"
    /\ pl' = IF pl.user_query = ""
             THEN [pl EXCEPT !.pc = "done", !.sql_result = <<>>]
             ELSE [pl EXCEPT !.pc = "parse"]
    /\ UNCHANGED <<qv_vars, sv_vars, ex_vars, aux_vars>>

\* lines 155-161
PLParse ==
    /\ pl.pc = "parse"
    /\ \E response \in LLMResponses :
          LET intent == parse(response) IN
          pl' = IF intent = <<>>
                THEN Return(Called(pl, "parse", "failure"),
                            <<"Failed to parse query intent", "">>)
                ELSE [Called(pl, "parse", "success") EXCEPT
                          !.pc = "validate_intent", !.intent = intent]
    /\ UNCHANGED <<qv_vars, sv_vars, ex_vars, aux_vars>>

\* lines 163-169: a SchemaValidator is constructed and asked; intent.get of a
\* value that is no mapping raises AttributeError, which lines 203-206 catch
PLValidateIntent ==
    /\ pl.pc = "validate_intent"
    /\ \E cache \in LoadedSchemas :
          /\ schema_cache' = cache
          /\ sv_intent' = pl.intent[1]
          /\ IF pl.intent[1].type # "dict"
             THEN /\ sv_result' = <<>>
                  /\ pl' = Return(Called(pl, "validate_intent", "raised"),
                                  <<"SQL agent processing failed: ", "AttributeError">>)
             ELSE LET validation_result == validate_intent(cache, pl.intent[1]) IN
                  /\ sv_result' = <<validation_result>>
                  /\ pl' = IF ~validation_result.valid
                           THEN Return([Called(pl, "validate_intent", "failure") EXCEPT
                                            !.validation_result = <<validation_result>>],
                                       <<"Schema validation failed: ", validation_result.errors>>)
                           ELSE [Called(pl, "validate_intent", "success") EXCEPT
                                     !.pc = "generate_query",
                                     !.validation_result = <<validation_result>>]
    /\ UNCHANGED <<qv_vars, ex_vars, aux_vars>>

\* lines 171-177
PLGenerate ==
    /\ pl.pc = "generate_query"
    /\ LET sql_query == generate_query(pl.intent[1], pl.validation_result[1].schema_info) IN
       pl' = IF sql_query = <<>>
             THEN Return(Called(pl, "generate_query", "failure"),
                         <<"Failed to generate SQL query", "">>)
             ELSE [Called(pl, "generate_query", "success") EXCEPT
                       !.pc = "validate_query", !.sql_query = sql_query]
    /\ UNCHANGED <<qv_vars, sv_vars, ex_vars, aux_vars>>

PLValidateQueryUnguarded ==
    /\ pl.pc = "validate_query"
    /\ LET query_validation == validate_query(pl.sql_query[1]) IN
       /\ qv_sql' = pl.sql_query[1]
       /\ qv_result' = <<query_validation>>
       /\ pl' = [Called(pl, "validate_query", "success") EXCEPT
                     !.pc = "execute_read_query",
                     !.query_validation = <<query_validation>>]
    /\ UNCHANGED <<sv_vars, ex_vars, aux_vars>>

\* lines 179-185
PLValidateQuery ==
    /\ pl.pc = "validate_query"
    /\ LET query_validation == validate_query(pl.sql_query[1]) IN
       /\ qv_sql' = pl.sql_query[1]
       /\ qv_result' = <<query_validation>>
       /\ pl' = IF ~query_validation.valid
                THEN Return([Called(pl, "validate_query", "failure") EXCEPT
                                 !.query_validation = <<query_validation>>],
                            <<"Query validation failed: ", query_validation.errors>>)
                ELSE [Called(pl, "validate_query", "success") EXCEPT
                          !.pc = "execute_read_query",
                          !.query_validation = <<query_validation>>]
    /\ UNCHANGED <<sv_vars, ex_vars, aux_vars>>

\* lines 187-189: the call of execute_read_query; its steps are those of the executor
PLExecute ==
    /\ pl.pc = "execute_read_query"
    /\ ex[1].pc = "idle"
    /\ ex' = [ex EXCEPT ![1] = [ExIdle EXCEPT !.pc = "read_check",
                                             !.entry = "execute_read_query",
                                             !.sql = pl.sql_query[1]]]
    /\ pl' = [pl EXCEPT !.pc = "executing", !.calls = Append(pl.calls, "execute_read_query")]
    /\ UNCHANGED <<open_conns, store, qv_vars, sv_vars, aux_vars>>

\* lines 189-193: execute_read_query has returned
PLExecuted ==
    /\ pl.pc = "executing"
    /\ ex[1].pc = "returned"
    /\ LET execution_result == ex[1].result[1] IN
       pl' = IF ~execution_result.success
             THEN Return([pl EXCEPT !.returns = Append(pl.returns, "failure"),
                                    !.execution_result = <<execution_result>>],
                         <<"Query execution failed: ", execution_result.error>>)
             ELSE [pl EXCEPT !.returns = Append(pl.returns, "success"),
                             !.pc = "format_results",
                             !.execution_result = <<execution_result>>]
    /\ UNCHANGED <<qv_vars, sv_vars, ex_vars, aux_vars>>

\* the result of execute_read_query as the formatter reads it: row r a dict of
\* the result's columns (the store holds r in every cell of row r), and the time
\* the query took
AsRead(execution_result) ==
    [execution_time |-> "0.050"]
        @@ [execution_result EXCEPT
                !.data = [r \in 1..Len(@) |->
                            [c \in Range(execution_result.columns) |-> CellInt(@[r])]]]

\* lines 195-201
PLFormat ==
    /\ pl.pc = "format_results"
    /\ LET formatted_result == format_results(AsRead(pl.execution_result[1])) IN
       pl' = Return([Called(pl, "format_results", "success") EXCEPT
                         !.formatted_result = <<formatted_result>>],
                    formatted_result.display_text)
    /\ UNCHANGED <<qv_vars, sv_vars, ex_vars, aux_vars>>

PLRowCounts == {0, 12}
PLResultColumns == {<<"avg_price">>, <<"estate_id", "price">>}

\* one run of the node: a question or none, a store that answers or fails
Init ==
    /\ \E q \in {"", "question"} : pl = [PLEntered EXCEPT !.user_query = q]
    /\ ExStart
    /\ \E n \in PLRowCounts : \E columns \in PLResultColumns :
          store = [rows |-> n, columns |-> columns, sqls |-> {}, callers |-> {1},
                   raises |-> {"OperationalError", "Exception"}]
    /\ QVIdle
    /\ AuxIdle
    /\ SVIdle

Next ==
    \/ PLEnter
    \/ PLParse
    \/ PLValidateIntent
    \/ PLGenerate
    \/ PLValidateQuery
    \/ PLExecute
    \/ ExStep
    \/ PLExecuted
    \/ PLFormat

Spec == Init /\ [][Next]_vars

(***************************************************************************)
(* Claims about validate_query (SpecQV)                                    *)
(***************************************************************************)
\* the text holds a denylisted keyword as a whole word, in any letter case
HasDenylistedWord(s) ==
    \E i \in 1..Len(s) :
        /\ Upper(s[i]) \in dangerous_keywords
        /\ (i = 1 \/ ~EndsWordChar(s[i-1]))
        /\ (i = Len(s) \/ ~StartsWordChar(s[i+1]))

\* C3: any SQL text that holds a denylisted keyword as a case-insensitive whole
\* word, anywhere (also inside a comment or a string literal), is answered by
\* validate_query with valid = false and safe = false.
C3_DenylistedWordRejected ==
    (qv_result # <<>> /\ HasDenylistedWord(qv_sql))
        => (~qv_result[1].valid /\ ~qv_result[1].safe)

\* a lower-case keyword that stands only inside a comment of a SELECT has been rejected
C3_Witness ==
    /\ qv_result # <<>>
    /\ HasDenylistedWord(qv_sql)
    /\ ~HasDenylistedWord(_remove_comments(qv_sql))
    /\ StartsWithSELECT(qv_sql)
    /\ ~qv_result[1].valid
    /\ ~qv_result[1].safe

\* C4 (as claimed): any SQL text that hits the injection denylist is answered by
\* validate_query with safe = false and valid = false.
C4_InjectionHitIsUnsafe ==
    (qv_result # <<>> /\ ~_check_sql_injection(qv_sql).safe)
        => (~qv_result[1].safe /\ ~qv_result[1].valid)

(***************************************************************************)
(* Claims about the Query Executor (SpecExec, SpecConc)                    *)
(***************************************************************************)
Returned(p) == ex[p].pc = "returned" /\ ex[p].result # <<>>

\* C5: every successful result has row_count = len(data) <= max_rows, and has_more
\* is true exactly when the underlying result set holds more than max_rows rows;
\* max_rows + 1 rows give row_count = max_rows and has_more, exactly max_rows rows
\* give row_count = max_rows and no has_more.
C5_RowCap ==
    \A p \in store.callers :
        (ex[p].result # <<>> /\ ex[p].result[1].success) =>
            LET r == ex[p].result[1] IN
            /\ r.row_count = Len(r.data)
            /\ r.row_count <= max_rows
            /\ r.has_more <=> (ex[p].total > max_rows)
            /\ (ex[p].total = max_rows + 1) => (r.row_count = max_rows /\ r.has_more)
            /\ (ex[p].total = max_rows) => (r.row_count = max_rows /\ ~r.has_more)

\* a result set of max_rows + 1 rows has been cut to max_rows rows
C5_Witness ==
    \E p \in store.callers :
        /\ Returned(p)
        /\ ex[p].result[1].success
        /\ ex[p].total = max_rows + 1
        /\ ex[p].result[1].row_count = max_rows
        /\ ex[p].result[1].has_more

\* the statement begins with SELECT, in any letter case, after leading white space
BeginsWithSelect(sql) ==
    LET t == LStrip(sql) IN t # <<>> /\ Upper(t[1]) = "SELECT"

\* C6: execute_read_query answers every statement that does not begin with SELECT
\* with success = false and error_type 'safety', having opened no connection and
\* executed nothing; only statements that begin with SELECT reach execute_query.
C6_ReadOnlyGuard ==
    \A p \in store.callers :
        (ex[p].entry = "execute_read_query" /\ ~BeginsWithSelect(ex[p].sql)) =>
            /\ ex[p].pc \in {"read_check", "returned"}
            /\ ex[p].opened = 0
            /\ ex[p].conn = 0
            /\ ex[p].pc = "returned" =>
                  /\ ex[p].result # <<>>
                  /\ ~ex[p].result[1].success
                  /\ ex[p].result[1].error_type = "safety"

\* a non-empty statement that is no SELECT has been refused in read mode
C6_Witness ==
    \E p \in store.callers :
        /\ Returned(p)
        /\ ex[p].entry = "execute_read_query"
        /\ ex[p].sql # <<>>
        /\ ~BeginsWithSelect(ex[p].sql)
        /\ ex[p].result[1].error_type = "safety"
        /\ open_conns = {}

\* the callers that hold a connection they opened and have not yet closed
Holders == {p \in store.callers : ex[p].pc \in {"execute", "fetch", "finally"} /\ ex[p].conn # 0}

\* C7: every call of execute_query opens at most one connection and closes it before
\* it returns, on every exit path; the open connections are exactly those of the
\* calls in progress, one each and none shared, so none stays open after the calls.
C7_ConnectionsReleased ==
    /\ \A p \in store.callers : ex[p].opened <= 1
    /\ open_conns = {ex[p].conn : p \in Holders}
    /\ \A p, q \in Holders : p # q => ex[p].conn # ex[q].conn
    /\ (\A p \in store.callers : ex[p].pc \in {"idle", "returned"}) => open_conns = {}

\* one call has returned an error after it had opened its connection, while another
\* call holds the only open connection
C7_Witness ==
    \E p, q \in store.callers :
        /\ p # q
        /\ Returned(p)
        /\ ~ex[p].result[1].success
        /\ ex[p].raised_at \in {"execute", "fetch"}
        /\ ex[p].opened = 1
        /\ ex[q].pc \in {"execute", "fetch"}
        /\ open_conns = {ex[q].conn}

\* the error_type the claim gives to an exception class
ClaimedErrorType(exc) ==
    CASE exc = "OperationalError" -> "operational"
      [] exc = "IntegrityError"   -> "integrity"
      [] OTHER                    -> "unexpected"

FailedResult(p) == ex[p].result # <<>> /\ ~ex[p].result[1].success

\* C8 (as claimed): a failed result carries the query text and an error_type that
\* the failure determines: OperationalError -> operational, IntegrityError ->
\* integrity, any other exception and any failure to connect -> unexpected,
\* a statement that is no SELECT in read mode -> safety.
C8_ConnectFailureIsUnexpected ==
    \A p \in store.callers :
        FailedResult(p) =>
            LET r == ex[p].result[1] IN
            /\ r.query = ex[p].sql
            /\ r.error_type =
                 IF ex[p].exc = "" THEN "safety"
                 ELSE IF ex[p].raised_at = "connect" THEN "unexpected"
                 ELSE ClaimedErrorType(ex[p].exc)

\* C8 (amended): a failed result has success = false, carries the query text
\* unchanged, and its error_type follows the class of the exception, wherever it
\* was raised (the connect included): OperationalError -> operational,
\* IntegrityError -> integrity, any other exception -> unexpected; a statement that
\* is no SELECT in read mode -> safety, and only that.
C8_ErrorTypeByExceptionClass ==
    \A p \in store.callers :
        FailedResult(p) =>
            LET r == ex[p].result[1] IN
            /\ r.success = FALSE
            /\ r.query = ex[p].sql
            /\ r.error_type \in {"operational", "integrity", "unexpected", "safety"}
            /\ r.error_type =
                 IF ex[p].exc = "" THEN "safety" ELSE ClaimedErrorType(ex[p].exc)
            /\ (r.error_type = "safety") <=>
                 (ex[p].entry = "execute_read_query" /\ ~BeginsWithSelect(ex[p].sql))

\* a connect that raised OperationalError has been reported as operational
C8_Witness ==
    \E p \in store.callers :
        /\ Returned(p)
        /\ ex[p].raised_at = "connect"
        /\ ex[p].exc = "OperationalError"
        /\ ex[p].result[1].error_type = "operational"

(***************************************************************************)
(* Claims about validate_intent (SpecSV)                                   *)
(***************************************************************************)
\* the entries of the tables list that name no table of the snapshot
MissingTables(cache, intent) == {i \in 1..Len(intent.tables) : intent.tables[i] \notin DOMAIN cache}

\* the column is a column of some table of the snapshot
InSnapshot(cache, column) == \E t \in DOMAIN cache : ColumnIn(cache, t, column)

FiveAggregations == {"avg", "sum", "count", "max", "min"}

RecognizedAggregation(a) == a.type = "str" /\ a.str \in FiveAggregations

PositiveInteger(v) == v.type = "int" /\ v.int > 0

TableErrors(r) ==
    {i \in 1..Len(r.errors) : r.errors[i][1] = "Table '{table}' does not exist in database"}

\* C9 (as claimed): validate_intent returns valid = false with at least one error
\* whenever the tables list is empty, a named table is missing from the snapshot
\* (one error per missing table), a named column is in no table of the snapshot,
\* an aggregation is present and is not one of avg, sum, count, max, min, or a
\* limit is present and is not a positive integer.
C9_InvalidIntentRejected ==
    sv_result # <<>> =>
        LET r == sv_result[1] IN
        /\ (\/ sv_intent.tables = <<>>
            \/ MissingTables(schema_cache, sv_intent) # {}
            \/ \E c \in Range(sv_intent.columns) : ~InSnapshot(schema_cache, c)
            \/ sv_intent.aggregation.type # "NoneType"
                  /\ ~RecognizedAggregation(sv_intent.aggregation)
            \/ sv_intent.limit.type # "NoneType" /\ ~PositiveInteger(sv_intent.limit))
           => (~r.valid /\ Len(r.errors) >= 1)
        /\ Cardinality(TableErrors(r)) = Cardinality(MissingTables(schema_cache, sv_intent))

HypothesisC10(cache, intent) ==
    /\ \A t \in Range(intent.tables) : t \in DOMAIN cache
    /\ \A c \in Range(intent.columns) : InSnapshot(cache, c)
    /\ intent.aggregation.type = "NoneType" \/ RecognizedAggregation(intent.aggregation)
    /\ intent.limit.type = "NoneType" \/ PositiveInteger(intent.limit)

\* C10 (as claimed): every intent that names only tables and columns of the
\* snapshot, with a recognized aggregation or none and a positive integer limit
\* or none, is answered with valid = true and no error.
C10_WellFormedIntentAccepted ==
    (sv_result # <<>> /\ HypothesisC10(schema_cache, sv_intent))
        => (sv_result[1].valid /\ sv_result[1].errors = <<>>)

\* C10 (amended): every intent that names at least one table, and only tables and
\* columns of the snapshot, with a recognized aggregation or none and a positive
\* integer limit or none, is answered with valid = true and no error.
C10_WellFormedIntentWithTableAccepted ==
    (sv_result # <<>> /\ sv_intent.tables # <<>> /\ HypothesisC10(schema_cache, sv_intent))
        => (sv_result[1].valid /\ sv_result[1].errors = <<>>)

\* an intent with a table, a column of another table of the snapshot, an
\* aggregation and a limit has been accepted, with a warning
C10_Witness ==
    /\ sv_result # <<>>
    /\ sv_intent.tables = <<"estates">>
    /\ sv_intent.columns = <<"price">>
    /\ sv_intent.aggregation = PyStr("avg")
    /\ sv_intent.limit = PyInt(1)
    /\ sv_result[1].valid
    /\ sv_result[1].errors = <<>>
    /\ sv_result[1].warnings # <<>>

(***************************************************************************)
(* Claims about a pipeline run (Spec)                                      *)
(***************************************************************************)
\* the failure string with which sql_agent_node names a stage that failed
FailureText(stage) ==
    CASE stage = "parse"              -> "Failed to parse query intent"
      [] stage = "validate_intent"    -> "Schema validation failed: "
      [] stage = "generate_query"     -> "Failed to generate SQL query"
      [] stage = "validate_query"     -> "Query validation failed: "
      [] stage = "execute_read_query" -> "Query execution failed: "
      [] stage = "format_results"     -> "Error formatting results: "

\* the stages are called in the order of Stages, each only after the one before it
\* returned success, and none after one that did not
StagesInOrder ==
    /\ Len(pl.calls) <= Len(Stages)
    /\ \A i \in 1..Len(pl.calls) : pl.calls[i] = Stages[i]
    /\ Len(pl.returns) \in {Len(pl.calls) - 1, Len(pl.calls)}
    /\ \A i \in 2..Len(pl.calls) : pl.returns[i-1] = "success"

\* C1 (as claimed): in a pipeline run the six stages run strictly in the order
\* parse, validate_intent, generate_query, validate_query, execute_read_query,
\* format_results; a stage starts only after the previous one returned success;
\* after the first stage failure no later stage is invoked and the sql_result
\* returned is a failure string that names the stage that failed.
C1_StagesInOrderFailureNamed ==
    /\ StagesInOrder
    /\ \A i \in 1..Len(pl.returns) :
          (pl.pc = "done" /\ pl.returns[i] # "success") =>
              /\ Len(pl.calls) = i
              /\ pl.sql_result # <<>>
              /\ pl.sql_result[1][1] = FailureText(Stages[i])

\* C2: in every pipeline run the executor is invoked only with SQL text for which
\* validate_query returned valid = true, and it is that very text; SQL text that
\* holds a denylisted keyword is rejected with safe = false (and valid = false)
\* and is never passed to the executor.
C2_ExecutorOnlyAfterValidation ==
    /\ ex[1].pc # "idle" =>
          /\ qv_result # <<>>
          /\ qv_result[1].valid
          /\ ex[1].sql = qv_sql
          /\ ex[1].sql = pl.sql_query[1]
    /\ (qv_result # <<>> /\ HasDenylistedWord(qv_sql)) =>
          /\ ~qv_result[1].safe
          /\ ~qv_result[1].valid
          /\ ex[1].pc = "idle"
          /\ \A i \in 1..Len(pl.calls) : pl.calls[i] # "execute_read_query"

\* a run whose generated SQL ends in "; DROP TABLE estates" has returned the
\* validation failure, and the executor was never called
C2_Witness ==
    /\ pl.pc = "done"
    /\ qv_result # <<>>
    /\ \E i \in 1..(Len(qv_sql) - 4) :
          SubSeq(qv_sql, i, i + 4) = <<"DROP", " ", "TABLE", " ", "estates">>
    /\ ~qv_result[1].safe
    /\ pl.calls = <<"parse", "validate_intent", "generate_query", "validate_query">>
    /\ pl.sql_result[1][1] = "Query validation failed: "
    /\ ex[1].pc = "idle"

(***************************************************************************)
(* Claims about generate_query (SpecQG)                                    *)
(***************************************************************************)
\* the token sequence sub stands in s
ContainsTokens(s, sub) ==
    \E i \in 1..(Len(s) - Len(sub) + 1) : SubSeq(s, i, i + Len(sub) - 1) = sub

\* generate_query has returned for a valid intent with an aggregation set (a value
\* that counts as true) and exactly n tables
ReturnedForAggregation(n) ==
    /\ qg # <<>>
    /\ qg.pc = "returned"
    /\ qg.valid
    /\ Truthy(qg.intent.aggregation)
    /\ Len(qg.intent.tables) = n

\* the column name the first column of the intent is resolved to
ResolvedColumn == FixColumn(qg.intent.columns[1], qg.intent.tables, qg.schema_info)

\* the SQL returned holds <AGG>( directly followed by the column name
HoldsAggregationOf(column) ==
    /\ qg.outcome[1].sql # <<>>
    /\ ContainsTokens(qg.outcome[1].sql[1],
                      <<Upper(qg.intent.aggregation.str), "(", column>>)

\* C11 as stated: for every valid intent with an aggregation set and exactly one
\* table, generate_query returns SQL that holds the aggregation name in upper case,
\* then '(' and the resolved column name.
C11_SingleTableAggregationGenerated ==
    ReturnedForAggregation(1) =>
        /\ qg.intent.columns # <<>>
        /\ HoldsAggregationOf(ResolvedColumn)

\* C11 amended: the same, for the intents whose first column resolves to a column of
\* the table; for the others (no column named, or a first column the table does
\* not have) generate_query returns no query.
C11_SingleTableAggregationOfResolvedColumn ==
    ReturnedForAggregation(1) =>
        IF qg.intent.columns # <<>>
           /\ ColumnIn(qg.schema_info, qg.intent.tables[1], ResolvedColumn)
        THEN HoldsAggregationOf(ResolvedColumn)
        ELSE qg.outcome[1].sql = <<>>

\* AVG over the column avg_ft_price, which transactions does not have, has been
\* generated over the column price it was resolved to
C11_Witness ==
    /\ ReturnedForAggregation(1)
    /\ qg.intent.tables = <<"transactions">>
    /\ qg.intent.columns = <<"avg_ft_price">>
    /\ qg.intent.aggregation = PyStr("avg")
    /\ qg.intent.filters = <<"price=5">>
    /\ qg.outcome[1].sql =
          << <<"SELECT", " ", "AVG", "(", "price", ")", " ", "AS", " ", "avg", "_", "price",
               " ", "FROM", " ", "transactions", " ", "WHERE", " ",
               "transactions", ".", "price", " ", "=", " ", "5">> >>

\* the token sequences of parts stand in s one after the other, in that order, without
\* overlap (other text may stand between them); from is where the search starts
RECURSIVE ContainsInOrder(_, _, _)
ContainsInOrder(s, parts, from) ==
    \/ parts = <<>>
    \/ \E i \in from..(Len(s) - Len(Head(parts)) + 1) :
          /\ SubSeq(s, i, i + Len(Head(parts)) - 1) = Head(parts)
          /\ ContainsInOrder(s, Tail(parts), i + Len(Head(parts)))

JoinChain ==
    << <<"estates", " ", "e", " ">>,
       <<"JOIN", " ", "buildings", " ", "b", " ">>,
       <<"JOIN", " ", "units", " ", "u", " ">>,
       <<"JOIN", " ", "transactions", " ", "t", " ">> >>

\* generate_query has returned for a valid intent with an aggregation set that names
\* both estates and transactions
ReturnedForJoin ==
    /\ qg # <<>>
    /\ qg.pc = "returned"
    /\ qg.valid
    /\ Truthy(qg.intent.aggregation)
    /\ {"estates", "transactions"} \subseteq Range(qg.intent.tables)

\* C12: for every valid intent that names both estates and transactions and has an
\* aggregation set, generate_query returns SQL that holds JOIN and the chain
\* estates e, JOIN buildings b, JOIN units u, JOIN transactions t in that order,
\* whatever other tables or columns the intent names.
C12_JoinChainGenerated ==
    ReturnedForJoin =>
        /\ qg.outcome[1].sql # <<>>
        /\ ContainsTokens(qg.outcome[1].sql[1], <<"JOIN">>)
        /\ ContainsInOrder(qg.outcome[1].sql[1], JoinChain, 1)

\* three tables, transactions before estates, a column of estates: the chain stands
\* in the SQL returned
C12_Witness ==
    /\ ReturnedForJoin
    /\ qg.intent.tables = <<"units", "estates", "transactions">>
    /\ qg.intent.columns = <<"estate_id", "price">>
    /\ qg.intent.aggregation = PyStr("count")
    /\ qg.outcome[1].sql # <<>>
    /\ ContainsInOrder(qg.outcome[1].sql[1],
                       << <<"SELECT", " ", "COUNT", "(", "t", ".", "price", ")">> >> \o JoinChain, 1)

\* generate_query has returned (for any intent, valid or not, mapping or not)
QGReturned == qg # <<>> /\ qg.pc = "returned"

\* the SQL aggregates column c of table t: <AGG>(c) or <AGG>(alias.c)
AggregatesColumn(sql, aggregation, t, c) ==
    \/ ContainsTokens(sql, <<Upper(aggregation.str), "(", c, ")">>)
    \/ ContainsTokens(sql, <<Upper(aggregation.str), "(", _get_table_alias(t), ".", c, ")">>)

\* C13: generate_query never raises, and it returns no query (None)
\*   - when an exception is raised inside it,
\*   - when the table a single-table query reads is not in the schema slice,
\*   - when the aggregation column cannot be resolved to a column of a named table
\*     (stated from the other side: a query returned for an aggregation aggregates
\*     a column that a named table has in the slice),
\*   - when an aggregation names several tables but not both estates and transactions.
C13_NoQueryNeverRaises ==
    QGReturned =>
        /\ qg.outcome[1].raised = <<>>
        /\ qg.exception # <<>> => qg.outcome[1].sql = <<>>
        /\ qg.intent.type = "dict" =>
              /\ (~(Truthy(qg.intent.aggregation) /\ Len(qg.intent.tables) > 1)
                     /\ (qg.intent.tables = <<>>
                            \/ qg.intent.tables[1] \notin DOMAIN qg.schema_info))
                    => qg.outcome[1].sql = <<>>
              /\ (Truthy(qg.intent.aggregation) /\ qg.outcome[1].sql # <<>>)
                    => \E i \in 1..Len(qg.intent.tables) :
                         /\ qg.intent.tables[i] \in DOMAIN qg.schema_info
                         /\ \E c \in Range(qg.schema_info[qg.intent.tables[i]].columns) :
                               AggregatesColumn(qg.outcome[1].sql[1], qg.intent.aggregation,
                                                qg.intent.tables[i], c)
              /\ (Truthy(qg.intent.aggregation) /\ Len(qg.intent.tables) > 1
                     /\ ~({"estates", "transactions"} \subseteq Range(qg.intent.tables)))
                    => qg.outcome[1].sql = <<>>

\* a valid intent with an aggregation and no column: the [0] of the empty column
\* list raised IndexError inside, and generate_query returned None
C13_Witness ==
    /\ QGReturned
    /\ qg.valid
    /\ qg.intent.tables = <<"estates">>
    /\ qg.intent.columns = <<>>
    /\ qg.intent.aggregation = PyStr("avg")
    /\ qg.exception = <<"IndexError">>
    /\ qg.outcome[1] = [raised |-> <<>>, sql |-> <<>>]


\* format_results has returned a formatted result for a successful execution
\* result with at least one row
RFSucceededWithRows ==
    /\ rf # <<>> /\ rf.pc = "returned" /\ rf.formatted # <<>>
    /\ rf.execution_result.success
    /\ rf.execution_result.data # <<>>

RFOneRowOneColumn ==
    /\ Len(rf.execution_result.data) = 1
    /\ Len(rf.execution_result.columns) = 1

RFResultType ==
    IF "result_type" \in DOMAIN rf.formatted[1] THEN rf.formatted[1].result_type ELSE ""

\* C14: a successful result of exactly one row and one column is rendered as
\* single_value with the text 'The result is: <value>', whatever the column is
\* named (count included); any other result with a column name holding avg, sum,
\* count, min, max or total is rendered as aggregation; any other as table.
C14_SingleValueBeforeAggregation ==
    RFSucceededWithRows =>
        IF RFOneRowOneColumn
        THEN /\ RFResultType = "single_value"
             /\ rf.formatted[1].display_text
                    = <<"The result is: ">>
                        \o _format_value(rf.execution_result.data[1][rf.execution_result.columns[1]],
                                         rf.execution_result.columns[1])
        ELSE IF \E i \in 1..Len(rf.execution_result.columns) :
                    HasAggIndicator(rf.execution_result.columns[i])
        THEN RFResultType = "aggregation"
        ELSE RFResultType = "table"


\* format_results has returned the formatted result of a successful result of one
\* row whose only column is avg_price, its value an int or a float
RFAveragePrice ==
    /\ RFSucceededWithRows
    /\ Len(rf.execution_result.data) = 1
    /\ rf.execution_result.columns = <<"avg_price">>
    /\ rf.execution_result.data[1]["avg_price"].type \in {"int", "float"}

\* the tokens of text after the first token mark; none if text has no mark
AfterMark(text, mark) ==
    IF \E i \in 1..Len(text) : text[i] = mark
    THEN SubSeq(text, (CHOOSE i \in 1..Len(text) :
                          text[i] = mark /\ \A j \in 1..(i-1) : text[j] # mark) + 1,
                Len(text))
    ELSE <<>>

Unsigned(t) == IF t # <<>> /\ t[1] = "-" THEN Tail(t) ELSE t

\* t is a whole number written with a comma before every group of three digits:
\* counted from the right, each fourth character is a comma and every other a digit
WellGrouped(t) ==
    /\ t # <<>>
    /\ \A i \in 1..Len(t) :
          IF (Len(t) - i + 1) % 4 = 0 THEN t[i] = "," ELSE t[i] \in Range(DigitChar)

\* the number a sequence of digit characters writes
RECURSIVE NumberOf(_)
NumberOf(digits) ==
    IF digits = <<>> THEN 0
    ELSE 10 * NumberOf(SubSeq(digits, 1, Len(digits) - 1))
            + (CHOOSE d \in 0..9 : DigitChar[d + 1] = digits[Len(digits)])

\* the whole number written is the value to zero decimal places: no further from
\* it than a half (a float counts in quarters)
IsValueToZeroDecimals(t, value) ==
    LET whole == NumberOf(SelectSeq(t, LAMBDA c : c # ","))
    IN  IF value.type = "float"
        THEN Abs(4 * whole - Abs(value.n)) <= 2
        ELSE whole = Abs(value.n)

\* C15: a successful one-row result whose only column is avg_price, with a
\* numeric value, is formatted as result_type aggregation; its display_text holds
\* 'The average price' and the value with the prefix HK$, a comma between groups
\* of three digits and no decimal places.
C15_AveragePriceAsCurrency ==
    RFAveragePrice =>
        /\ RFResultType = "aggregation"
        /\ ContainsTokens(rf.formatted[1].display_text,
                          <<"The", " ", "average", " ", "price">>)
        /\ WellGrouped(Unsigned(AfterMark(rf.formatted[1].display_text, "HK$")))
        /\ IsValueToZeroDecimals(Unsigned(AfterMark(rf.formatted[1].display_text, "HK$")),
                                 rf.execution_result.data[1]["avg_price"])

C15_Witness ==
    /\ RFAveragePrice
    /\ rf.execution_result.data[1]["avg_price"] = CellFloat(31183426)
    /\ rf.formatted[1].display_text
          = <<"The", " ", "average", " ", "price", ":", " ", "HK$",
              "7", ",", "7", "9", "5", ",", "8", "5", "6">>


RFReturned == rf # <<>> /\ rf.pc = "returned" /\ rf.formatted # <<>>

\* C16: for every successful execution result, one of zero rows included, the
\* formatted result has success = true, a result_type among aggregation,
\* single_value and table, and a display_text; for every failed one it has
\* success = false and the error_type of the execution result.
C16_FormattedResultShape ==
    RFReturned =>
        IF rf.execution_result.success
        THEN /\ "success" \in DOMAIN rf.formatted[1]
             /\ rf.formatted[1].success = TRUE
             /\ RFResultType \in {"aggregation", "single_value", "table"}
             /\ "display_text" \in DOMAIN rf.formatted[1]
        ELSE /\ rf.formatted[1].success = FALSE
             /\ rf.formatted[1].error_type = rf.execution_result.error_type


RFTable == RFReturned /\ RFResultType = "table"

\* the result has more rows than the table displays
RFMoreThanDisplayed ==
    \/ rf.execution_result.row_count > rf.formatted[1].display_rows
    \/ rf.execution_result.has_more

\* C17: a table displays at most 10 rows; when the result has more rows than
\* are displayed (row_count above the number displayed, or has_more set) the
\* display_text holds the trailer '... and N more rows' with N = row_count less
\* the number displayed, N > 0; when all rows are displayed it holds no trailer.
C17_TableTrailer ==
    RFTable =>
        /\ rf.formatted[1].display_rows <= 10
        /\ IF RFMoreThanDisplayed
           THEN /\ rf.execution_result.row_count - rf.formatted[1].display_rows > 0
                /\ ContainsTokens(rf.formatted[1].display_text,
                                  <<"... and ">>
                                    \o IntStr(rf.execution_result.row_count
                                                - rf.formatted[1].display_rows)
                                    \o <<" more rows">>)
           ELSE \A i \in 1..Len(rf.formatted[1].display_text) :
                    rf.formatted[1].display_text[i] # "... and "


IPDone == ip # <<>> /\ ip.pc = "done"

\* C18: parse calls the service at most once per invocation; when the call is
\* not over within the timeout parse stops waiting and returns None, never a part
\* of an intent; after a timeout or a response that is no JSON it does not call
\* the service again.
C18_OneCallThenNone ==
    /\ [](ip.calls <= 1)
    /\ [](IPDone /\ ip.timed_out => ip.result = <<>> /\ ip.elapsed = ip.timeout)
    /\ [](IPDone => \/ ip.result = <<>>
                    \/ ip.response # <<>> /\ ip.result = <<ip.response[1].value>>)
    /\ [](IPDone /\ ip.response # <<>> /\ ip.response[1].kind = "malformed"
            => ip.result = <<>>)
    /\ [][ip.calls' # ip.calls => ip.pc = "called" /\ ip.calls = 0]_vars
    /\ (ip.pc = "waiting" ~> ip.pc = "done")

C18_Witness ==
    /\ IPDone
    /\ ip.timeout = default_timeout
    /\ ip.timed_out
    /\ ip.elapsed = 10
    /\ ip.calls = 1
    /\ ip.result = <<>>


\* C19: no stage of the pipeline raises into its caller, whatever the input (an
\* intent that is no mapping included): each stage called returns a success
\* value or a structured failure, and a run of sql_agent_node on a question ends
\* with a state update that holds sql_result.
C19_NoStageRaises ==
    /\ \A i \in 1..Len(pl.returns) : pl.returns[i] \in {"success", "failure"}
    /\ (pl.pc = "done" /\ pl.user_query # "") => pl.sql_result # <<>>


\* generate_query has returned SQL
QGReturnedSql == QGReturned /\ qg.outcome[1].sql # <<>>

\* the clauses the intent asks for after WHERE, in the order GROUP BY, ORDER BY,
\* LIMIT, behind the WHERE of the SQL if it has one
ClausesAsked(intent, sql) ==
    (IF ContainsTokens(sql, <<"WHERE">>) THEN << <<"WHERE">> >> ELSE <<>>)
        \o (IF intent.group_by # <<>> THEN << <<" ", "GROUP", " ", "BY", " ">> >> ELSE <<>>)
        \o (IF intent.order_by # <<>> THEN << <<" ", "ORDER", " ", "BY", " ">> >> ELSE <<>>)
        \o (IF intent.limit.type # "NoneType" THEN << <<" ", "LIMIT", " ">> >> ELSE <<>>)

\* C20: whenever generate_query returns SQL, in every query shape, a non-empty
\* group_by is rendered as a GROUP BY clause, a non-empty order_by as an ORDER BY
\* clause and a present limit as a LIMIT clause, after WHERE and in the order
\* WHERE, GROUP BY, ORDER BY, LIMIT.
C20_ClausesRendered ==
    QGReturnedSql =>
        ContainsInOrder(qg.outcome[1].sql[1], ClausesAsked(qg.intent, qg.outcome[1].sql[1]), 1)


\* generate_query has classified the intent
QGClassified == QGReturned /\ qg.query_type # <<>>

\* C21 (as claimed): the query shape is a function of whether the intent has an
\* aggregation and of the number of its tables: aggregation and more than one
\* table give aggregation_with_join, aggregation and exactly one table give
\* simple_aggregation, everything else (aggregation and no table included)
\* gives simple_select.
C21_ShapeByAggregationAndTableCount ==
    QGClassified =>
        qg.query_type[1] =
            (IF Truthy(qg.intent.aggregation) /\ Len(qg.intent.tables) > 1
             THEN "aggregation_with_join"
             ELSE IF Truthy(qg.intent.aggregation) /\ Len(qg.intent.tables) = 1
             THEN "simple_aggregation"
             ELSE "simple_select")

\* C21 (amended): aggregation and more than one table give aggregation_with_join,
\* aggregation and at most one table (none included) give simple_aggregation, no
\* aggregation gives simple_select.
C21_ShapeAggregationWithoutTable ==
    QGClassified =>
        qg.query_type[1] =
            (IF Truthy(qg.intent.aggregation) /\ Len(qg.intent.tables) > 1
             THEN "aggregation_with_join"
             ELSE IF Truthy(qg.intent.aggregation) /\ Len(qg.intent.tables) <= 1
             THEN "simple_aggregation"
             ELSE "simple_select")

C21_Witness ==
    /\ QGClassified
    /\ qg.intent.aggregation = PyStr("avg")
    /\ qg.intent.tables = <<>>
    /\ qg.query_type = <<"simple_aggregation">>


\* the first of the tables, in the order of the intent, whose columns in the
\* slice hold the column; <<>> when none does
FirstTableWith(column, tables, schema_info) ==
    IF \E i \in 1..Len(tables) : ColumnIn(schema_info, tables[i], column)
    THEN <<tables[CHOOSE i \in 1..Len(tables) :
                    /\ ColumnIn(schema_info, tables[i], column)
                    /\ \A j \in 1..(i-1) : ~ColumnIn(schema_info, tables[j], column)]>>
    ELSE <<>>

\* the one condition a filter of the shape identifier = value is to contribute:
\* qualified with the alias of its table when more than one table takes part, else
\* with the name of the table; none for a filter of another shape or of a column
\* that no named table has
ConditionClaimed(match, tables, schema_info) ==
    IF match = <<>> \/ FirstTableWith(match[1].column, tables, schema_info) = <<>>
    THEN <<>>
    ELSE << << IF Len(tables) > 1
               THEN _get_table_alias(FirstTableWith(match[1].column, tables, schema_info)[1])
               ELSE FirstTableWith(match[1].column, tables, schema_info)[1],
               ".", match[1].column, " ", "=", " " >> \o match[1].value >>

ConditionsClaimed(filters, tables, schema_info) ==
    Join([i \in 1..Len(filters) |->
            ConditionClaimed(FilterMatch(Tokens(filters[i])), tables, schema_info)], <<>>)

\* generate_query has built the WHERE conditions of a valid intent
QGWhereBuilt == QGReturned /\ qg.valid /\ qg.intent.filters # <<>>

\* C22: each filter of the shape identifier = value goes to the first named table
\* whose columns hold the identifier and contributes exactly one condition,
\* qualified with the alias of that table when more than one table takes part and
\* with the table name otherwise; any other filter contributes nothing; with no
\* condition left there is no WHERE clause.
C22_ConditionsQualifiedByAlias ==
    QGWhereBuilt =>
        /\ _build_where_conditions(qg.intent.filters, qg.intent.tables, qg.schema_info)
              = JoinedConditions(ConditionsClaimed(qg.intent.filters, qg.intent.tables,
                                                   qg.schema_info))
        /\ (ConditionsClaimed(qg.intent.filters, qg.intent.tables, qg.schema_info) = <<>>
            /\ qg.outcome[1].sql # <<>>)
              => ~ContainsTokens(qg.outcome[1].sql[1], <<"WHERE">>)


SVReturned == sv_result # <<>>

\* the column is in none of the named tables but in another table of the snapshot
InAnotherTableOnly(c) ==
    /\ \A i \in 1..Len(sv_intent.tables) : ~ColumnIn(schema_cache, sv_intent.tables[i], c)
    /\ \E t \in DOMAIN schema_cache : c \in Range(schema_cache[t].columns)

\* the error has a cause of its own: no table, a table or a column the snapshot
\* does not have, an aggregation or a limit that is rejected
ErrorHasItsCause(e) ==
    \/ e[1] = "No tables specified in intent" /\ sv_intent.tables = <<>>
    \/ e[1] = "Table '{table}' does not exist in database"
          /\ e[2] \in Range(sv_intent.tables) /\ e[2] \notin DOMAIN schema_cache
    \/ e[1] = "Column '{column}' does not exist in any table"
          /\ e[2] \in Range(sv_intent.columns)
          /\ \A t \in DOMAIN schema_cache : e[2] \notin Range(schema_cache[t].columns)
    \/ e[1] = "Invalid aggregation function: {aggregation}"
    \/ e[1] = "Invalid LIMIT value: {limit}"

HasWarning(text, c) ==
    \E i \in 1..Len(sv_result[1].warnings) : sv_result[1].warnings[i] = <<text, c>>

\* C23: a column in none of the named tables that another table of the snapshot
\* has gives a warning and no error; a group_by or order_by column that is not
\* among the selected columns gives a warning and no error; valid is true
\* exactly when errors is empty, whatever the warnings.
C23_WarningsLeaveValid ==
    SVReturned =>
        /\ \A c \in Range(sv_intent.columns) :
              InAnotherTableOnly(c) =>
                 HasWarning("Column '{column}' exists but not in specified tables - may need JOIN", c)
        /\ \A c \in Range(sv_intent.group_by) :
              c \notin Range(sv_intent.columns) =>
                 HasWarning("GROUP BY column '{column}' not in selected columns", c)
        /\ \A c \in Range(sv_intent.order_by) :
              c \notin Range(sv_intent.columns) =>
                 HasWarning("ORDER BY column '{column}' not in selected columns", c)
        /\ \A i \in 1..Len(sv_result[1].errors) : ErrorHasItsCause(sv_result[1].errors[i])
        /\ sv_result[1].valid <=> sv_result[1].errors = <<>>

C23_Witness ==
    /\ SVReturned
    /\ schema_cache = StoreSchema
    /\ sv_intent.tables = <<"estates">>
    /\ sv_intent.columns = <<"price">>
    /\ sv_intent.group_by = <<"estate_id">>
    /\ sv_result[1].errors = <<>>
    /\ sv_result[1].warnings =
          << <<"Column '{column}' exists but not in specified tables - may need JOIN", "price">>,
             <<"GROUP BY column '{column}' not in selected columns", "estate_id">> >>
    /\ sv_result[1].valid


\* parse has returned after a response of the service
IPDecoded == IPDone /\ ip.response # <<>> /\ ip.response[1].kind # "error"

\* the text, trimmed, is JSON, or else its part from the first '{' to the last '}' is
ReadsAsJson(t) ==
    \/ json_loads(Strip(t)) # <<>>
    \/ (\E i \in 1..Len(t) : t[i] = "{") /\ json_loads(Braced(t)) # <<>>

\* the value read from the text is a JSON object
ReadsAsObject(t) ==
    IF json_loads(Strip(t)) # <<>> THEN json_loads(Strip(t))[1].json = "object"
    ELSE (\E i \in 1..Len(t) : t[i] = "{")
            /\ json_loads(Braced(t)) # <<>> /\ json_loads(Braced(t))[1].json = "object"

\* C24: parse returns an intent only when the trimmed response is JSON or, failing
\* that, its part from the first '{' to the last '}' is; the value returned is
\* then a JSON object (a mapping); when there are no braces, when both attempts
\* fail or when the value read is no object, parse returns None.
C24_OnlyObjectsReturned ==
    IPDecoded =>
        /\ ip.result # <<>> => ReadsAsJson(ip.text) /\ ip.result[1].type = "dict"
        /\ ~ReadsAsObject(ip.text) => ip.result = <<>>


\* C25: the schema summary is computed once per process: after the first call
\* of get_dynamic_schema_summary every later call returns the same text and
\* makes no new query to the store, whether the first call gave the live summary
\* or the hardcoded one.
C25_SummaryComputedOnce ==
    (ss # <<>> /\ ss.returned # <<>>) =>
        /\ \A i \in 1..Len(ss.returned) : ss.returned[i] = ss.returned[1]
        /\ ss.queries <= 1


\* generate_query has resolved the columns of an intent the validator accepted
QGResolved == QGReturned /\ qg.valid /\ qg.fixed_intent # <<>>

\* C26: validate_intent and generate_query never change the intent they are
\* given: after the calls its tables, columns, filters, aggregation, group_by,
\* order_by and limit are what they were, and the resolved columns are written
\* into a derived copy only.
C26_IntentNotMutated ==
    /\ QGReturned => qg.intent_after = qg.intent
    /\ QGResolved =>
          /\ qg.fixed_intent[1].columns
                = [i \in 1..Len(qg.intent.columns) |->
                     FixColumn(qg.intent.columns[i], qg.intent.tables, qg.schema_info)]
          /\ \A k \in DOMAIN qg.intent \ {"columns"} :
                qg.fixed_intent[1][k] = qg.intent[k]

C26_Witness ==
    /\ QGResolved
    /\ qg.intent.tables = <<"transactions">>
    /\ qg.intent.columns = <<"avg_ft_price">>
    /\ qg.fixed_intent[1].columns = <<"price">>
    /\ qg.intent_after.columns = <<"avg_ft_price">>


\* generate_query has returned SQL for an intent without aggregation
QGReturnedSelect == QGReturnedSql /\ ~Truthy(qg.intent.aggregation)

\* the tokens of sql between "SELECT " and the first " FROM"
SelectList(sql) ==
    SubSeq(sql, 3,
           Cardinality({n \in 1..Len(sql) : \A j \in 1..n : sql[j] # "FROM"}) - 1)

\* C27: every SQL text returned for an intent without aggregation has a select
\* list that is not empty: the resolved columns joined by commas, or * when the
\* intent asks for no columns.
C27_SelectListNotEmpty ==
    QGReturnedSelect =>
        /\ SelectList(qg.outcome[1].sql[1]) # <<>>
        /\ SelectList(qg.outcome[1].sql[1])
              = (IF qg.intent.columns = <<>> THEN <<"*">>
                 ELSE CommaJoined([i \in 1..Len(qg.intent.columns) |->
                                     FixColumn(qg.intent.columns[i], qg.intent.tables,
                                               qg.schema_info)]))


\* generate_query has returned SQL for an aggregation over several tables
QGReturnedJoin ==
    QGReturnedSql /\ qg.valid /\ qg.query_type = <<"aggregation_with_join">>

\* the aliases the FROM and JOIN clauses of sql introduce: FROM estates e, JOIN units u
AliasesBound(sql) ==
    {sql[i + 4] : i \in {j \in 1..(Len(sql) - 4) : sql[j] \in {"FROM", "JOIN"}}}

\* the qualifiers sql uses: what stands before a '.'
QualifiersUsed(sql) == {sql[i - 1] : i \in {j \in 2..Len(sql) : sql[j] = "."}}

\* C28: in every SQL text returned for an aggregation over several tables, each
\* qualifier of the aggregated column and of the WHERE conditions is an alias
\* that the FROM/JOIN clause of the same query introduces.
C28_QualifiersBound ==
    QGReturnedJoin =>
        QualifiersUsed(qg.outcome[1].sql[1]) \subseteq AliasesBound(qg.outcome[1].sql[1])


\* C29: every SQL text that validate_query answers with valid = true passes the
\* begins-with-SELECT check of execute_read_query, so the executor never
\* answers a validated query with a safety error.
C29_ValidatedPassesReadCheck ==
    (qv_result # <<>> /\ qv_result[1].valid) => ReadCheck(qv_sql)


\* C30: for every successful execution result, an aggregation whose single
\* value is null included, format_results returns a display_text that is not
\* empty, so a successful run never hands the summarizer an empty sql_result.
C30_DisplayTextNotEmpty ==
    (/\ rf # <<>> /\ rf.pc = "returned"
     /\ "success" \in DOMAIN rf.execution_result
     /\ rf.execution_result.success) =>
        /\ rf.formatted # <<>>
        /\ "display_text" \in DOMAIN rf.formatted[1]
        /\ rf.formatted[1].display_text # <<>>

====
